---- MODULE Spec2Model ----
(***************************************************************************)
(* A model of the networked Battleship server:                             *)
(*   src/battleship.py  Board, parse_coordinate, run_two_player_game       *)
(*   src/server.py      presence maps, admission loop, lobby, spectators,  *)
(*                      handle_game_session                                *)
(*                                                                         *)
(* Four specifications share the definitions below.                        *)
(*   SpecBoard   a Board driven directly through its public methods.       *)
(*   SpecEngine  run_two_player_game called through its declared           *)
(*               parameters on a pair of player channels.                  *)
(*   Spec        the server as src/server.py is written: the call of       *)
(*               run_two_player_game at server.py:644-652 does not bind    *)
(*               its arguments, so no match is ever played.                *)
(*   SpecMatch   the server had that call bound its arguments as the       *)
(*               engine declares them: handle_game_session around          *)
(*               run_two_player_game, the admission loop beside it.        *)
(***************************************************************************)
EXTENDS Integers, Sequences, FiniteSets, TLC

(***************************************************************************)
(* Bounds of the model.  The program plays on a 10 x 10 grid with five     *)
(* ships of lengths 5,4,3,3,2; the model keeps the catalogue ordered and   *)
(* scales the grid and the lengths down.                                   *)
(***************************************************************************)
BOARD_SIZE == 2

None == "None"
\* None where a dict is expected.
NoneState == [none |-> TRUE]

\* battleship.py:17-23, scaled: an ordered catalogue of (name, length).
SHIPS == << [name |-> "Cruiser", size |-> 2], [name |-> "Destroyer", size |-> 1] >>

(***************************************************************************)
(* State.                                                                  *)
(***************************************************************************)
VARIABLES
    \* a Board under test (SpecBoard)
    tb, tbPlacing, tbInitCells, tbLast,
    \* parse_coordinate under test (SpecParse): its argument, whether it has
    \* been called, and what it returned
    cinput, cpc, coord,
    \* protocol.py (SpecProtocol)
    next_sequence_number,      \* the global sequence counter
    packet_bytes,              \* the bytes of the last packet, as on the wire
    created,                   \* the arguments and the IV of the last create_packet
    ppc,                       \* "idle", "created", "corrupted" once a byte was changed,
                               \* "truncated", "received", "sent"
    recv_log,                  \* what the socket did, what receive_packet returned and
                               \* what ProtocolAdapter.readline made of it
    send_log,                  \* the last send_packet: its sock.sendall outcomes, its
                               \* result and the number of writes
    \* run_two_player_game: parameters and locals
    player1_username, player2_username,
    epc,                       \* where the engine is
    eargs,                     \* initial_player1_board_state, ..2.., initial_current_player_name
    eplacer,                   \* whose ships handle_ship_placement is placing
    emode,                     \* "choose" or "manual" inside handle_ship_placement
    player1_board, player2_board,
    current_player_name_for_turn,
    eraised,                   \* the PlayerDisconnectedError that left the engine
    elast,                     \* what the last pass of the turn loop did, who moved,
                               \* and whose shot was the last applied in this match
    \* server.py globals
    active_usernames, disconnected_players, waiting_players, current_game_spectators,
    game_in_progress, current_game,
    \* sockets, threads and the clock
    nextConn,                  \* the next connection accept() returns
    closed,                    \* connections the server has closed
    sent,                      \* <<connection, type, text>> of the ERROR, GAME_END and
                               \* RECONNECT packets sent so far
    now,                       \* time.time()
    stop_events,               \* connections whose lobby stop_event is set
    lobbyThreads,              \* connection -> username of its running handle_waiting_player
    specThreads,               \* connection -> position of its handle_spectator
    sessionThreads,            \* game ids of the live handle_game_session threads
    conn_username,             \* connection -> the username it identified with
    apc, aconn, apkt, ausername, \* run_game_server: position, conn, first packet, username
    \* handle_game_session: position and locals
    spc, game_id, player1_adapter_conn, player2_adapter_conn, resumed_game_state,
    rematch,                   \* player1_wants_rematch, player2_wants_rematch, and whether bound
    disconnected_player_name, wait_start_time,
    \* broadcast_chat_message: broadcasting task's connection -> the connection it
    \* is writing to
    chat_writing,
    \* the threading.Lock objects of server.py:36-46
    lock_owner,                \* lock -> the thread inside its `with`, None when free
    lock_task                  \* thread -> the acquisitions and releases still ahead of
                               \* it in the locked section it is in

boardVars  == << tb, tbPlacing, tbInitCells, tbLast >>
parseVars  == << cinput, cpc, coord >>
protocolVars == << next_sequence_number, packet_bytes, created, ppc, recv_log, send_log >>
codecVars  == << parseVars, protocolVars >>
engineVars == << player1_username, player2_username, epc, eargs, eplacer, emode,
                 player1_board, player2_board, current_player_name_for_turn,
                 eraised, elast >>
globalVars == << active_usernames, disconnected_players, waiting_players,
                 current_game_spectators, game_in_progress, current_game >>
envVars    == << nextConn, closed, sent, now >>
threadVars == << stop_events, lobbyThreads, specThreads, sessionThreads, conn_username,
                 apc, aconn, apkt, ausername >>
sessionVars == << spc, game_id, player1_adapter_conn, player2_adapter_conn,
                  resumed_game_state, rematch, disconnected_player_name, wait_start_time >>
serverVars == << globalVars, envVars, threadVars, sessionVars >>
lockVars   == << lock_owner, lock_task >>
chatVars   == << chat_writing, lockVars >>
vars == << boardVars, codecVars, engineVars, serverVars, chatVars >>

(***************************************************************************)
(*                              Board                                      *)
(***************************************************************************)
Cells(n) == (0 .. n - 1) \X (0 .. n - 1)

\* Board.__init__: both grids all '.', no ships.
NewBoard(n) ==
    [ size         |-> n,
      hidden_grid  |-> [p \in Cells(n) |-> "."],
      display_grid |-> [p \in Cells(n) |-> "."],
      placed_ships |-> << >> ]

\* The run of cells a ship of the given length covers from (row, col);
\* orientation 0 is horizontal, anything else vertical.
ShipCells(row, col, ship_size, orientation) ==
    IF orientation = 0
    THEN { <<row, c>> : c \in col .. (col + ship_size - 1) }
    ELSE { <<r, col>> : r \in row .. (row + ship_size - 1) }

\* can_place_ship without the look at the cells it would cover.
can_place_ship_BoundsOnly(b, row, col, ship_size, orientation) ==
    IF orientation = 0
    THEN ~ (col + ship_size > b.size)
    ELSE ~ (row + ship_size > b.size)

can_place_ship(b, row, col, ship_size, orientation) ==
    IF orientation = 0
    THEN /\ ~ (col + ship_size > b.size)
         /\ \A c \in col .. (col + ship_size - 1) : b.hidden_grid[<<row, c>>] = "."
    ELSE /\ ~ (row + ship_size > b.size)
         /\ \A r \in row .. (row + ship_size - 1) : b.hidden_grid[<<r, col>>] = "."

\* do_place_ship marks the cells 'S' and returns them; every caller appends
\* {'name', 'positions'} to placed_ships right after (battleship.py:77-81,
\* 636-637, 662-666).  PlaceShip is the two together.
do_place_ship(b, row, col, ship_size, orientation) ==
    [ b EXCEPT !.hidden_grid =
        [p \in DOMAIN @ |->
            IF p \in ShipCells(row, col, ship_size, orientation) THEN "S" ELSE @[p]] ]

PlaceShip(b, ship_name, row, col, ship_size, orientation) ==
    [ do_place_ship(b, row, col, ship_size, orientation) EXCEPT
        !.placed_ships = Append(@, [ name      |-> ship_name,
                                     positions |-> ShipCells(row, col, ship_size, orientation) ]) ]

\* The index of the first ship whose positions hold the cell, 0 if none.
FirstShipWith(ships, cell) ==
    IF \E i \in 1 .. Len(ships) : cell \in ships[i].positions
    THEN CHOOSE i \in 1 .. Len(ships) :
            /\ cell \in ships[i].positions
            /\ \A j \in 1 .. (i - 1) : cell \notin ships[j].positions
    ELSE 0

\* A variant that leaves every ship's positions as they were.
MarkHitShips_Keep(ships, cell) == ships

\* _mark_hit_and_check_sunk: drop the cell from the first ship holding it;
\* the ship's name if that emptied it, None otherwise.
MarkHitShips(ships, cell) ==
    LET i == FirstShipWith(ships, cell) IN
    IF i = 0 THEN ships
    ELSE [ships EXCEPT ![i].positions = @ \ {cell}]

\* A variant that names the ship on every hit.
MarkHitSunkName_AnyHit(ships, cell) ==
    LET i == FirstShipWith(ships, cell) IN
    IF i # 0 THEN ships[i].name ELSE None

MarkHitSunkName(ships, cell) ==
    LET i == FirstShipWith(ships, cell) IN
    IF i # 0 /\ ships[i].positions \ {cell} = {} THEN ships[i].name ELSE None

\* A variant that records a hit on the hidden grid only.
fire_at_HiddenOnly(b, row, col) ==
    IF row < 0 \/ row >= b.size \/ col < 0 \/ col >= b.size
    THEN [board |-> b, result |-> "invalid", sunk |-> None]
    ELSE LET cell == b.hidden_grid[<<row, col>>] IN
         IF cell = "S"
         THEN [ board  |-> [ b EXCEPT !.hidden_grid[<<row, col>>]  = "X",
                                       !.placed_ships = MarkHitShips(@, <<row, col>>) ],
                result |-> "hit",
                sunk   |-> MarkHitSunkName(b.placed_ships, <<row, col>>) ]
         ELSE IF cell = "."
         THEN [ board  |-> [ b EXCEPT !.hidden_grid[<<row, col>>]  = "o",
                                       !.display_grid[<<row, col>>] = "o" ],
                result |-> "miss",
                sunk   |-> None ]
         ELSE [board |-> b, result |-> "already_shot", sunk |-> None]

\* Board.fire_at: the board afterwards, the result and the sunk ship's name.
fire_at(b, row, col) ==
    IF row < 0 \/ row >= b.size \/ col < 0 \/ col >= b.size
    THEN [board |-> b, result |-> "invalid", sunk |-> None]
    ELSE LET cell == b.hidden_grid[<<row, col>>] IN
         IF cell = "S"
         THEN [ board  |-> [ b EXCEPT !.hidden_grid[<<row, col>>]  = "X",
                                       !.display_grid[<<row, col>>] = "X",
                                       !.placed_ships = MarkHitShips(@, <<row, col>>) ],
                result |-> "hit",
                sunk   |-> MarkHitSunkName(b.placed_ships, <<row, col>>) ]
         ELSE IF cell = "."
         THEN [ board  |-> [ b EXCEPT !.hidden_grid[<<row, col>>]  = "o",
                                       !.display_grid[<<row, col>>] = "o" ],
                result |-> "miss",
                sunk   |-> None ]
         ELSE [board |-> b, result |-> "already_shot", sunk |-> None]

all_ships_sunk(b) ==
    \A i \in 1 .. Len(b.placed_ships) : ~ (Cardinality(b.placed_ships[i].positions) > 0)

\* Every sequence that lists the elements of S once each: the orders in
\* which iterating a set may yield them.
RECURSIVE ListingsOf(_)
ListingsOf(S) ==
    IF S = {} THEN { << >> }
    ELSE UNION { { <<x>> \o t : t \in ListingsOf(S \ {x}) } : x \in S }

\* Board.serialize: the grids as they are, and per ship its name and its
\* positions as a list of [r, c] lists in the set's iteration order.  The
\* operator yields every snapshot serialize() can return.
Serializations(b) ==
    { [ size         |-> b.size,
        hidden_grid  |-> b.hidden_grid,
        display_grid |-> b.display_grid,
        placed_ships |-> ships ] :
      ships \in { s \in [ 1 .. Len(b.placed_ships) ->
                            UNION { { [name |-> b.placed_ships[i].name, positions |-> l] :
                                       l \in ListingsOf(b.placed_ships[i].positions) } :
                                    i \in 1 .. Len(b.placed_ships) } ] :
                   \A i \in 1 .. Len(b.placed_ships) :
                       /\ s[i].name = b.placed_ships[i].name
                       /\ s[i].positions \in ListingsOf(b.placed_ships[i].positions) } }

\* The snapshot one call of serialize() returns.  Which listing of a positions
\* set it holds is immaterial to every reader: deserialize rebuilds the set.
serialize(b) == CHOOSE data \in Serializations(b) : TRUE

\* The elements of a list, as the set comprehension {tuple(pos) for pos in l}.
ListToSet(l) == { l[k] : k \in 1 .. Len(l) }

\* A variant that restores a blank display grid.
deserialize_FreshDisplay(data) ==
    [ size         |-> data.size,
      hidden_grid  |-> data.hidden_grid,
      display_grid |-> [p \in DOMAIN data.display_grid |-> "."],
      placed_ships |-> [ i \in 1 .. Len(data.placed_ships) |->
                           [ name      |-> data.placed_ships[i].name,
                             positions |-> ListToSet(data.placed_ships[i].positions) ] ] ]

\* Board.deserialize.
deserialize(data) ==
    [ size         |-> data.size,
      hidden_grid  |-> data.hidden_grid,
      display_grid |-> data.display_grid,
      placed_ships |-> [ i \in 1 .. Len(data.placed_ships) |->
                           [ name      |-> data.placed_ships[i].name,
                             positions |-> ListToSet(data.placed_ships[i].positions) ] ] ]

(***************************************************************************)
(*                    Text: strings as character sequences                 *)
(***************************************************************************)
UpperLetters == << "A","B","C","D","E","F","G","H","I","J","K","L","M",
                   "N","O","P","Q","R","S","T","U","V","W","X","Y","Z" >>
LowerLetters == << "a","b","c","d","e","f","g","h","i","j","k","l","m",
                   "n","o","p","q","r","s","t","u","v","w","x","y","z" >>
Digits == << "0","1","2","3","4","5","6","7","8","9" >>

IndexIn(seq, ch) == CHOOSE i \in 1 .. Len(seq) : seq[i] = ch
IsIn(seq, ch)    == \E i \in 1 .. Len(seq) : seq[i] = ch

IsAlpha(ch) == IsIn(UpperLetters, ch) \/ IsIn(LowerLetters, ch)
IsDigit(ch) == IsIn(Digits, ch)
IsSpace(ch) == ch = " "

\* ord(ch) - ord('A') for an upper-case letter.
OrdFromA(ch) == IndexIn(UpperLetters, ch) - 1

UpperChar(ch) == IF IsIn(LowerLetters, ch) THEN UpperLetters[IndexIn(LowerLetters, ch)] ELSE ch
LowerChar(ch) == IF IsIn(UpperLetters, ch) THEN LowerLetters[IndexIn(UpperLetters, ch)] ELSE ch

\* str.upper(), str.lower()
Upper(s) == [i \in 1 .. Len(s) |-> UpperChar(s[i])]
Lower(s) == [i \in 1 .. Len(s) |-> LowerChar(s[i])]

\* str.strip()
RECURSIVE LStrip(_)
LStrip(s) == IF s # << >> /\ IsSpace(Head(s)) THEN LStrip(Tail(s)) ELSE s
RECURSIVE RStrip(_)
RStrip(s) == IF s # << >> /\ IsSpace(s[Len(s)]) THEN RStrip(SubSeq(s, 1, Len(s) - 1)) ELSE s
Strip(s) == RStrip(LStrip(s))

\* str.isdigit() (false on the empty string), int(str) of a digit string
IsDigitStr(s) == s # << >> /\ \A i \in 1 .. Len(s) : IsDigit(s[i])
RECURSIVE ToInt(_)
ToInt(s) == IF s = << >> THEN 0
            ELSE 10 * ToInt(SubSeq(s, 1, Len(s) - 1)) + (IndexIn(Digits, s[Len(s)]) - 1)

\* str.split(): the maximal runs of non-blank characters, in order.
RECURSIVE SplitFrom(_, _)
SplitFrom(s, word) ==
    IF s = << >> THEN (IF word = << >> THEN << >> ELSE << word >>)
    ELSE IF IsSpace(Head(s))
         THEN (IF word = << >> THEN << >> ELSE << word >>) \o SplitFrom(Tail(s), << >>)
         ELSE SplitFrom(Tail(s), Append(word, Head(s)))
Split(s) == SplitFrom(s, << >>)

Quit == << "q", "u", "i", "t" >>

\* parse_coordinate: [ok |-> TRUE, row, col], or ok |-> FALSE where the code
\* raises ValueError.
ParseFail == [ok |-> FALSE, row |-> -1, col |-> -1]
\* parse_coordinate without the test of the row against BOARD_SIZE.
parse_coordinate_NoRowCheck(coord_str) ==
    LET t == Upper(Strip(coord_str)) IN
    IF t = << >> THEN ParseFail
    ELSE IF ~ IsAlpha(t[1]) THEN ParseFail
    ELSE IF Len(t) < 2 \/ ~ IsDigitStr(Tail(t)) THEN ParseFail
    ELSE LET col_num == ToInt(Tail(t))
             row     == OrdFromA(t[1])
             col     == col_num - 1
         IN
         IF col_num < 1 \/ col_num > BOARD_SIZE THEN ParseFail
         ELSE IF col < 0 \/ col >= BOARD_SIZE THEN ParseFail
         ELSE [ok |-> TRUE, row |-> row, col |-> col]

parse_coordinate(coord_str) ==
    LET t == Upper(Strip(coord_str)) IN
    IF t = << >> THEN ParseFail
    ELSE IF ~ IsAlpha(t[1]) THEN ParseFail
    ELSE IF Len(t) < 2 \/ ~ IsDigitStr(Tail(t)) THEN ParseFail
    ELSE LET col_num == ToInt(Tail(t))
             row     == OrdFromA(t[1])
             col     == col_num - 1
         IN
         IF col_num < 1 \/ col_num > BOARD_SIZE THEN ParseFail
         ELSE IF row < 0 \/ row >= BOARD_SIZE THEN ParseFail
         ELSE IF col < 0 \/ col >= BOARD_SIZE THEN ParseFail
         ELSE [ok |-> TRUE, row |-> row, col |-> col]

(***************************************************************************)
(* SpecParse: parse_coordinate applied to a string.                        *)
(***************************************************************************)
MaxCoordLen == 3
CoordInputs ==
    UNION { [1 .. n -> {"A", "B", "C", "K", "b", "0", "1", "2", "3", " ", "-"}] :
            n \in 0 .. MaxCoordLen }

ParseCall ==
    /\ cpc = "input"
    /\ coord' = parse_coordinate(cinput)
    /\ cpc' = "returned"
    /\ UNCHANGED << cinput, protocolVars, boardVars, engineVars, serverVars, chatVars >>

(***************************************************************************)
(*                         src/protocol.py                                 *)
(*                                                                         *)
(* Bytes are the integers 0 .. 255 and a bytes object is a sequence of     *)
(* them.  An unsigned 32-bit integer is kept as two limbs, hi (the top     *)
(* byte) and lo (the low 24 bits), so that every value of the ">I" format  *)
(* is representable: value = hi * 2^24 + lo.                               *)
(***************************************************************************)
MAGIC_NUMBER == 1112753232
HEADER_SIZE == 17
IV_SIZE == 16
PacketTypes == 1 .. 11

U32(n) == [hi |-> n \div 16777216, lo |-> n % 16777216]

\* u + 1 on two limbs.  A Python integer does not overflow: hi reaches 256
\* when u is 0xFFFFFFFF.
U32Succ(u) == IF u.lo = 16777215 THEN [hi |-> u.hi + 1, lo |-> 0]
              ELSE [hi |-> u.hi, lo |-> u.lo + 1]
\* x % m on two limbs, for 0 <= x < 2 * m
U32Mod(x, m) ==
    IF x.hi < m.hi \/ (x.hi = m.hi /\ x.lo < m.lo) THEN x
    ELSE IF x.lo >= m.lo THEN [hi |-> x.hi - m.hi, lo |-> x.lo - m.lo]
    ELSE [hi |-> x.hi - m.hi - 1, lo |-> (x.lo + 16777216) - m.lo]

\* get_next_sequence_number: the number returned and the counter after the
\* call, (next_sequence_number + 1) % 0xFFFFFFFF.
get_next_sequence_number(counter) ==
    [seq |-> counter, next |-> U32Mod(U32Succ(counter), [hi |-> 255, lo |-> 16777215])]

\* struct.pack(">I", u) and struct.unpack(">I", b)[0]
pack_I(u) == << u.hi, u.lo \div 65536, (u.lo \div 256) % 256, u.lo % 256 >>
unpack_I(b) == [hi |-> b[1], lo |-> (b[2] * 65536) + (b[3] * 256) + b[4]]

\* a ^ b on non-negative integers
RECURSIVE BitXor(_, _)
BitXor(a, b) ==
    IF a = 0 THEN b
    ELSE IF b = 0 THEN a
    ELSE (2 * BitXor(a \div 2, b \div 2)) + ((a + b) % 2)

\* the xor of two 32-bit registers
Xor32(x, y) == << BitXor(x[1], y[1]), BitXor(x[2], y[2]), BitXor(x[3], y[3]),
                 BitXor(x[4], y[4]) >>

\* binascii.crc32: the reflected CRC-32 with polynomial 0xEDB88320, initial
\* value and final xor 0xFFFFFFFF, on a register of four bytes (high first).
CrcShr1(c) == << c[1] \div 2,
                 ((c[1] % 2) * 128) + (c[2] \div 2),
                 ((c[2] % 2) * 128) + (c[3] \div 2),
                 ((c[3] % 2) * 128) + (c[4] \div 2) >>
RECURSIVE CrcBits(_, _)
CrcBits(c, k) ==
    IF k = 0 THEN c
    ELSE CrcBits(IF c[4] % 2 = 1 THEN Xor32(<< 237, 184, 131, 32 >>, CrcShr1(c))
                 ELSE CrcShr1(c), k - 1)
CrcTable == [n \in 0 .. 255 |-> CrcBits(<< 0, 0, 0, n >>, 8)]
\* The register after the bytes of data; it is evaluated at every byte.
RECURSIVE CrcUpdate(_, _)
CrcUpdate(c, data) ==
    IF data = << >> THEN c
    ELSE LET next == Xor32(CrcTable[BitXor(c[4], Head(data))], << 0, c[1], c[2], c[3] >>) IN
         IF next[4] >= 0 THEN CrcUpdate(next, Tail(data)) ELSE next

\* calculate_checksum
calculate_checksum(data) ==
    unpack_I(Xor32(CrcUpdate(<< 255, 255, 255, 255 >>, data), << 255, 255, 255, 255 >>))

\* The i-th byte of the AES-256-CTR keystream for PRE_SHARED_KEY and iv.  The
\* block cipher is the cryptography library's; the code relies on the
\* keystream being a fixed function of the key, the IV and the position.
KeyStreamByte(iv, i) ==
    ((17 * i) + (31 * iv[((i - 1) % IV_SIZE) + 1]) + (7 * iv[1]) + 101) % 256

\* _encrypt_payload and _decrypt_payload with key PRE_SHARED_KEY: CTR mode
\* xors the data with the keystream.
encrypt_payload(payload_bytes, iv) ==
    [i \in 1 .. Len(payload_bytes) |-> BitXor(payload_bytes[i], KeyStreamByte(iv, i))]
decrypt_payload(encrypted_payload_bytes, iv) ==
    [i \in 1 .. Len(encrypted_payload_bytes) |->
        BitXor(encrypted_payload_bytes[i], KeyStreamByte(iv, i))]

\* ord() of the characters the payloads use.
ord(ch) ==
    IF IsIn(UpperLetters, ch) THEN 64 + IndexIn(UpperLetters, ch)
    ELSE IF IsIn(LowerLetters, ch) THEN 96 + IndexIn(LowerLetters, ch)
    ELSE IF IsIn(Digits, ch) THEN 47 + IndexIn(Digits, ch)
    ELSE 32

\* payload.encode() if isinstance(payload, str) else payload
StrPayload(chars) == [is_str |-> TRUE, chars |-> chars, bytes |-> << >>]
payload_bytes_of(payload) ==
    IF payload.is_str THEN [i \in 1 .. Len(payload.chars) |-> ord(payload.chars[i])]
    ELSE payload.bytes

\* create_packet with the data length taken from the ciphertext alone.
create_packet_LenNoIV(seq_num, packet_type, payload, iv) ==
    LET payload_bytes     == payload_bytes_of(payload)
        encrypted_payload == encrypt_payload(payload_bytes, iv)
        data_length       == Len(encrypted_payload)
        \* struct.pack(">IIBI", ...)
        header_prefix     == pack_I(U32(MAGIC_NUMBER)) \o pack_I(seq_num)
                               \o << packet_type >> \o pack_I(U32(data_length))
        data_to_checksum  == header_prefix \o iv \o encrypted_payload
        checksum          == calculate_checksum(data_to_checksum)
        full_header       == header_prefix \o pack_I(checksum)
    IN full_header \o iv \o encrypted_payload

\* create_packet, with the sequence number and the IV it draws
create_packet(seq_num, packet_type, payload, iv) ==
    LET payload_bytes     == payload_bytes_of(payload)
        encrypted_payload == encrypt_payload(payload_bytes, iv)
        data_length       == IV_SIZE + Len(encrypted_payload)
        \* struct.pack(">IIBI", ...)
        header_prefix     == pack_I(U32(MAGIC_NUMBER)) \o pack_I(seq_num)
                               \o << packet_type >> \o pack_I(U32(data_length))
        data_to_checksum  == header_prefix \o iv \o encrypted_payload
        checksum          == calculate_checksum(data_to_checksum)
        full_header       == header_prefix \o pack_I(checksum)
    IN full_header \o iv \o encrypted_payload

\* decode_header on HEADER_SIZE bytes
decode_header(header_bytes) ==
    [magic    |-> unpack_I(SubSeq(header_bytes, 1, 4)),
     seq      |-> unpack_I(SubSeq(header_bytes, 5, 8)),
     ptype    |-> header_bytes[9],
     dlen     |-> unpack_I(SubSeq(header_bytes, 10, 13)),
     checksum |-> unpack_I(SubSeq(header_bytes, 14, 17))]

\* A returned None is [none |-> TRUE]; bytes b are SomeBytes(b), and the
\* tuple (magic, seq, ptype, dlen) of a decoded header h is HeaderInfo(h).
SomeBytes(b) == [none |-> FALSE, bytes |-> b]
HeaderInfo(h) == [none |-> FALSE, magic |-> h.magic, seq |-> h.seq, ptype |-> h.ptype,
                  dlen |-> h.dlen]

\* verify_packet without the comparison of the checksums.
verify_packet_NoChecksum(bytes) ==
    IF Len(bytes) < HEADER_SIZE + IV_SIZE
    THEN [is_valid |-> FALSE, header |-> [none |-> TRUE], payload |-> [none |-> TRUE]]
    ELSE LET header_bytes == SubSeq(bytes, 1, HEADER_SIZE)
             iv_plus_encrypted_payload == SubSeq(bytes, HEADER_SIZE + 1, Len(bytes))
             h == decode_header(header_bytes)
         IN
         IF h.magic # U32(MAGIC_NUMBER)
         THEN [is_valid |-> FALSE, header |-> HeaderInfo(h), payload |-> [none |-> TRUE]]
         ELSE IF U32(Len(iv_plus_encrypted_payload)) # h.dlen
         THEN [is_valid |-> FALSE, header |-> HeaderInfo(h), payload |-> [none |-> TRUE]]
         ELSE [is_valid |-> TRUE, header |-> HeaderInfo(h),
               payload |-> SomeBytes(iv_plus_encrypted_payload)]

\* verify_packet: (is_valid, decoded_header_info, iv_plus_encrypted_payload)
verify_packet(bytes) ==
    IF Len(bytes) < HEADER_SIZE + IV_SIZE
    THEN [is_valid |-> FALSE, header |-> [none |-> TRUE], payload |-> [none |-> TRUE]]
    ELSE LET header_bytes == SubSeq(bytes, 1, HEADER_SIZE)
             iv_plus_encrypted_payload == SubSeq(bytes, HEADER_SIZE + 1, Len(bytes))
             h == decode_header(header_bytes)
         IN
         IF h.magic # U32(MAGIC_NUMBER)
         THEN [is_valid |-> FALSE, header |-> HeaderInfo(h), payload |-> [none |-> TRUE]]
         ELSE IF U32(Len(iv_plus_encrypted_payload)) # h.dlen
         THEN [is_valid |-> FALSE, header |-> HeaderInfo(h), payload |-> [none |-> TRUE]]
         ELSE LET calculated_checksum ==
                      calculate_checksum(SubSeq(header_bytes, 1, 13) \o iv_plus_encrypted_payload)
                  is_valid == calculated_checksum = h.checksum
              IN [is_valid |-> is_valid, header |-> HeaderInfo(h),
                  payload |-> IF is_valid THEN SomeBytes(iv_plus_encrypted_payload)
                              ELSE [none |-> TRUE]]

\* corrupt_packet when exactly one byte is replaced by another value
corrupt_packet(bytes, at, byte) == [bytes EXCEPT ![at] = byte]

\* What a function gives back: a value it returns or an exception it raises.
InvalidResult == [raised |-> None, is_valid |-> FALSE, header |-> [none |-> TRUE],
                  payload |-> [none |-> TRUE]]
Raised(exception) == [InvalidResult EXCEPT !.raised = exception]

\* What the socket does during one receive_packet call with a timeout: the
\* bytes the peer sent arrive and nothing follows them before the timeout
\* ("arrives"), nothing arrives ("timeout"), the stream has ended
\* ("closed"), or recv fails with a reset ("error").
Wires == {"arrives", "timeout", "closed", "error"}

\* The try block of receive_packet (protocol.py:178-236).
receive_packet_try(bytes, wire) ==
    CASE wire = "timeout" -> Raised("socket.timeout")
      [] wire = "error"   -> Raised("ConnectionResetError")
      [] wire = "closed"  -> InvalidResult
      [] OTHER ->
         IF Len(bytes) < HEADER_SIZE THEN Raised("socket.timeout")
         ELSE LET header_bytes == SubSeq(bytes, 1, HEADER_SIZE)
                  dlen_iv_plus_encrypted == decode_header(header_bytes).dlen
                  available == Len(bytes) - HEADER_SIZE
              IN
              IF dlen_iv_plus_encrypted.hi = 0 /\ dlen_iv_plus_encrypted.lo < IV_SIZE
              THEN InvalidResult
              ELSE IF dlen_iv_plus_encrypted.hi > 0 \/ dlen_iv_plus_encrypted.lo > available
              THEN Raised("socket.timeout")
              ELSE LET iv_plus_encrypted_payload_bytes ==
                           SubSeq(bytes, HEADER_SIZE + 1, HEADER_SIZE + dlen_iv_plus_encrypted.lo)
                       v == verify_packet(header_bytes \o iv_plus_encrypted_payload_bytes)
                   IN
                   IF ~ v.is_valid
                   THEN [InvalidResult EXCEPT !.header = v.header]
                   ELSE LET iv == SubSeq(v.payload.bytes, 1, IV_SIZE)
                            encrypted_actual_payload ==
                                SubSeq(v.payload.bytes, IV_SIZE + 1, Len(v.payload.bytes))
                            decrypted_payload == decrypt_payload(encrypted_actual_payload, iv)
                        IN [raised |-> None, is_valid |-> TRUE,
                            header |-> [v.header EXCEPT !.dlen = U32(Len(decrypted_payload))],
                            payload |-> SomeBytes(decrypted_payload)]

\* receive_packet without its except clauses.
protocol_receive_packet_NoExcept(bytes, wire) == receive_packet_try(bytes, wire)

\* receive_packet of protocol.py: the try block and the clauses
\* "except socket.timeout" and "except Exception" (lines 237-243).
protocol_receive_packet(bytes, wire) ==
    LET r == receive_packet_try(bytes, wire) IN
    IF r.raised # None THEN InvalidResult ELSE r

\* bytes.decode().strip().upper() on the bytes the payloads use
UpperByte(b) == IF b >= 97 /\ b <= 122 THEN b - 32 ELSE b
StripUpperBytes(bytes) ==
    LET kept == SelectSeq(bytes, LAMBDA b : b # 32) IN [i \in 1 .. Len(kept) |-> UpperByte(kept[i])]
\* ['Y', 'N', 'YES', 'NO', 'QUIT'], server.py:182
game_command_chats ==
    { << 89 >>, << 78 >>, << 89, 69, 83 >>, << 78, 79 >>, << 81, 85, 73, 84 >> }

\* One pass of the loop of ProtocolAdapter.readline (server.py:158-208) on
\* what receive_packet gave: the exception it raises, "return" when it
\* hands a line to the game, or "continue" when it goes on listening.
\* ack_sent is whether the ACK for a HEARTBEAT could be sent.
readline(r, ack_sent) ==
    IF r.raised # None THEN r.raised
    ELSE IF ~ r.is_valid \/ r.payload.none THEN "PlayerDisconnectedError"
    ELSE CASE r.header.ptype = 3  -> "return"
           [] r.header.ptype = 11 ->
                IF StripUpperBytes(r.payload.bytes) \in game_command_chats
                THEN "return" ELSE "continue"
           [] r.header.ptype = 7  -> "PlayerDisconnectedError"
           [] r.header.ptype = 10 -> IF ack_sent THEN "continue" ELSE "ConnectionResetError"
           [] OTHER -> "continue"

MAX_RETRIES == 3

\* The loop of send_packet from attempt on (protocol.py:266-276):
\* sendall[i] is whether the i-th sock.sendall returns; a failed one raises
\* socket.error.
RECURSIVE send_attempts(_, _, _)
send_attempts(attempt, max_retries, sendall) ==
    IF attempt >= max_retries THEN [result |-> FALSE, writes |-> 0]
    ELSE IF sendall[attempt + 1] THEN [result |-> TRUE, writes |-> 1]
    ELSE IF attempt = max_retries - 1 THEN [result |-> FALSE, writes |-> 1]
    ELSE LET rest == send_attempts(attempt + 1, max_retries, sendall)
         IN [result |-> rest.result, writes |-> rest.writes + 1]

\* send_packet that writes max_retries times whatever happens.
send_packet_WriteAll(created_ok, sendall, max_retries) ==
    IF ~ created_ok THEN [result |-> FALSE, writes |-> 0]
    ELSE [result |-> \E i \in 1 .. max_retries : sendall[i], writes |-> max_retries]

\* send_packet: created_ok is whether create_packet returned a packet.
send_packet(created_ok, sendall, max_retries) ==
    IF ~ created_ok THEN [result |-> FALSE, writes |-> 0]
    ELSE send_attempts(0, max_retries, sendall)

(***************************************************************************)
(* SpecProtocol: packets made by create_packet, then changed in one byte.  *)
(***************************************************************************)
MaxSeq == 1
MaxPacketLen == 35
\* The ways one byte is changed: each single bit flipped, and several bits.
Masks == {1, 2, 4, 8, 16, 32, 64, 128, 3, 15, 24, 85, 129, 170, 240, 255}
IVs == { [i \in 1 .. IV_SIZE |-> 0], [i \in 1 .. IV_SIZE |-> (37 * i + 128) % 256] }
Payloads == { StrPayload(<< >>), StrPayload(<< "B", "5" >>) }

NoReceive == [wire |-> "none", result |-> InvalidResult, line |-> "none"]
NoSend == [sendall |-> << >>, created_ok |-> FALSE, result |-> FALSE, writes |-> 0]

\* No packet has been created.
ProtocolIdle ==
    /\ next_sequence_number = U32(0)
    /\ packet_bytes = << >>
    /\ created = [packet_type |-> 0, payload |-> StrPayload(<< >>),
                  iv |-> [i \in 1 .. IV_SIZE |-> 0], seq_num |-> U32(0), at |-> 0]
    /\ ppc = "idle"
    /\ recv_log = NoReceive
    /\ send_log = NoSend

\* parse_coordinate has not been called and no packet has been created.
CodecIdle == cinput = << >> /\ cpc = "idle" /\ coord = ParseFail /\ ProtocolIdle

\* create_packet(packet_type, payload); iv is what os.urandom returns.  The
\* counter is followed through its top 2^24 values and up to MaxSeq.
ProtoCreate(packet_type, payload, iv) ==
    /\ next_sequence_number.hi = 255 \/ next_sequence_number.lo < MaxSeq
    /\ LET seq_num == get_next_sequence_number(next_sequence_number).seq IN
       /\ next_sequence_number' = get_next_sequence_number(next_sequence_number).next
       /\ packet_bytes' = create_packet(seq_num, packet_type, payload, iv)
       /\ created' = [packet_type |-> packet_type, payload |-> payload, iv |-> iv,
                      seq_num |-> seq_num, at |-> 0]
    /\ ppc' = "created"
    /\ UNCHANGED << recv_log, send_log, parseVars, boardVars, engineVars, serverVars, chatVars >>

\* One byte of the packet is changed before it is verified.
ProtoCorrupt(at, mask) ==
    /\ ppc = "created"
    /\ at <= Len(packet_bytes)
    /\ packet_bytes' = corrupt_packet(packet_bytes, at, BitXor(packet_bytes[at], mask))
    /\ created' = [created EXCEPT !.at = at]
    /\ ppc' = "corrupted"
    /\ UNCHANGED << next_sequence_number, recv_log, send_log, parseVars, boardVars, engineVars,
                    serverVars, chatVars >>

\* The connection delivers only the first k bytes of the packet.
ProtoTruncate(k) ==
    /\ ppc = "created"
    /\ k < Len(packet_bytes)
    /\ packet_bytes' = SubSeq(packet_bytes, 1, k)
    /\ ppc' = "truncated"
    /\ UNCHANGED << next_sequence_number, created, recv_log, send_log, parseVars, boardVars,
                    engineVars, serverVars, chatVars >>

\* receive_packet on the connection, called by ProtocolAdapter.readline.
\* When no byte is read, what the peer had sent makes no difference, so
\* those cases are taken on the packets as created.
ProtoReceive(wire) ==
    /\ ppc \in {"created", "corrupted", "truncated"}
    /\ wire # "arrives" => ppc = "created"
    /\ \E r \in {protocol_receive_packet(packet_bytes, wire)} :
       \E ack_sent \in IF r.is_valid /\ r.header.ptype = 10 THEN BOOLEAN ELSE {TRUE} :
          recv_log' = [wire |-> wire, result |-> r, line |-> readline(r, ack_sent)]
    /\ ppc' = "received"
    /\ UNCHANGED << next_sequence_number, packet_bytes, created, send_log, parseVars, boardVars,
                    engineVars, serverVars, chatVars >>

\* struct.pack(">IIBI", ...) raises struct.error on a packet type that is
\* not an unsigned byte, after the sequence number has been drawn.
create_packet_returns(packet_type) == packet_type \in 0 .. 255

\* send_packet(sock, packet_type, payload) with the default max_retries.
ProtoSend(packet_type, payload, iv, sendall) ==
    /\ ppc = "idle"
    /\ LET drawn == get_next_sequence_number(next_sequence_number)
           created_ok == create_packet_returns(packet_type)
           out == send_packet(created_ok, sendall, MAX_RETRIES)
       IN
       /\ next_sequence_number' = drawn.next
       /\ IF created_ok
          THEN /\ packet_bytes' = create_packet(drawn.seq, packet_type, payload, iv)
               /\ created' = [packet_type |-> packet_type, payload |-> payload, iv |-> iv,
                              seq_num |-> drawn.seq, at |-> 0]
          ELSE UNCHANGED << packet_bytes, created >>
       /\ send_log' = [sendall |-> sendall, created_ok |-> created_ok,
                       result |-> out.result, writes |-> out.writes]
    /\ ppc' = "sent"
    /\ UNCHANGED << recv_log, parseVars, boardVars, engineVars, serverVars, chatVars >>

(***************************************************************************)
(* SpecBoard: one Board, its ships placed in catalogue order through       *)
(* can_place_ship / do_place_ship, then fired at, snapshotted and restored.*)
(***************************************************************************)

BoardIdle ==
    /\ tb = NewBoard(BOARD_SIZE)
    /\ tbPlacing = TRUE
    /\ tbInitCells = {}
    /\ tbLast = [op |-> "none", row |-> 0, col |-> 0, pre |-> NewBoard(BOARD_SIZE),
                 result |-> None, sunk |-> None, orientation |-> 0, can_place |-> FALSE]

\* One pass of the placement loop for the next ship of the catalogue: a
\* draw of place_ships_randomly (battleship.py:70-82) or of
\* randomly_place_single_ship, or one manual entry whose coordinate parsed;
\* the ship is placed when can_place_ship accepts the draw, and the loop
\* comes round again when it does not.
TbPlace(orientation, row, col) ==
    /\ tbPlacing
    /\ Len(tb.placed_ships) < Len(SHIPS)
    /\ LET ship == SHIPS[Len(tb.placed_ships) + 1] IN
       \E can \in {can_place_ship(tb, row, col, ship.size, orientation)} :
          /\ tb' = IF can THEN PlaceShip(tb, ship.name, row, col, ship.size, orientation)
                          ELSE tb
          /\ tbInitCells' = IF can
                              THEN tbInitCells \cup ShipCells(row, col, ship.size, orientation)
                              ELSE tbInitCells
          /\ tbLast' = [op |-> "place", row |-> row, col |-> col, pre |-> tb,
                        result |-> None, sunk |-> None,
                        orientation |-> orientation, can_place |-> can]
    /\ UNCHANGED << tbPlacing, codecVars, chatVars, engineVars, serverVars >>

TbStartFiring ==
    /\ tbPlacing
    /\ tbPlacing' = FALSE
    /\ UNCHANGED << tb, tbInitCells, tbLast, codecVars, chatVars, engineVars, serverVars >>

TbFire(row, col) ==
    /\ ~ tbPlacing
    /\ LET f == fire_at(tb, row, col) IN
       /\ tb' = f.board
       /\ tbLast' = [op |-> "fire", row |-> row, col |-> col, pre |-> tb,
                     result |-> f.result, sunk |-> f.sunk,
                     orientation |-> 0, can_place |-> FALSE]
    /\ UNCHANGED << tbPlacing, tbInitCells, codecVars, chatVars, engineVars, serverVars >>

TbRestore ==
    /\ \E data \in Serializations(tb) :
          /\ tb' = deserialize(data)
          /\ tbLast' = [op |-> "restore", row |-> 0, col |-> 0, pre |-> tb,
                        result |-> None, sunk |-> None,
                        orientation |-> 0, can_place |-> FALSE]
    /\ UNCHANGED << tbPlacing, tbInitCells, codecVars, chatVars, engineVars, serverVars >>

(***************************************************************************)
(*                 run_two_player_game  (src/battleship.py)                *)
(*                                                                         *)
(* The engine talks to each player through a channel object that has no    *)
(* fileno (server.ProtocolAdapter): write() sends a CHAT or BOARD_UPDATE   *)
(* packet and raises PlayerDisconnectedError(username) when the send       *)
(* fails; readline() returns the stripped text of the next game input or   *)
(* raises PlayerDisconnectedError(username); an empty line is a            *)
(* disconnection (recv_from_player_with_timeout, battleship.py:452-457).   *)
(* Whether a send or a receive succeeds is the environment's choice.       *)
(* One engine action is one pass of a loop body: the engine's locals are   *)
(* private to the thread that runs it.                                     *)
(***************************************************************************)
NoArgs   == [p1 |-> NoneState, p2 |-> NoneState, next |-> None]
NoRaise  == [player_name |-> None, game_state |-> NoneState]
NoLast   == [kind |-> "none", by |-> None, shot_by |-> None]

OtherName(name) == IF name = player1_username THEN player2_username ELSE player1_username

\* bool(initial_player1_board_state and initial_player2_board_state and
\* initial_current_player_name), battleship.py:672.
IsResumedArgs(args) == args.p1 # NoneState /\ args.p2 # NoneState /\ args.next # None

\* recv_from_player_with_timeout on a channel without fileno
\* (battleship.py:451-457, server.py:152-168): the stripped text of the
\* player's next game input, or PlayerDisconnectedError when readline times
\* out after MOVE_TIMEOUT or yields an empty line.  response = << >> stands
\* for a player who sends nothing.  None is never returned.
recv_from_player_with_timeout(response) ==
    IF Strip(response) # << >>
    THEN [raised |-> FALSE, value |-> Strip(response)]
    ELSE [raised |-> TRUE, value |-> None]

\* The game_state the handlers at battleship.py:704-714, 728-738 and 822-833
\* attach: both boards serialized and the name whose turn is next.
GameState(b1, b2, next_turn) ==
    [ player1_board_state |-> serialize(b1), player2_board_state |-> serialize(b2),
      next_turn_username |-> next_turn ]

\* A grid as the rows the board senders write: row r lists the cells of
\* columns 0 .. size-1 (each cell is one character, centred in three).
GridRows(grid, size) ==
    [ r \in 1 .. size |-> [ c \in 1 .. size |-> grid[<<r - 1, c - 1>>] ] ]

\* A variant that writes the grids with the ships on them.
send_board_to_spectators_Hidden(p1_board_obj, p2_board_obj) ==
    [ p1_name |-> player1_username,
      p1_rows |-> GridRows(p1_board_obj.hidden_grid, p1_board_obj.size),
      p2_name |-> player2_username,
      p2_rows |-> GridRows(p2_board_obj.hidden_grid, p2_board_obj.size) ]

\* send_board_to_spectators (battleship.py:540-576): the SPECTATOR_GRID
\* message handed to the spectator callback, both players' grids by rows.
send_board_to_spectators(p1_board_obj, p2_board_obj) ==
    [ p1_name |-> player1_username,
      p1_rows |-> GridRows(p1_board_obj.display_grid, p1_board_obj.size),
      p2_name |-> player2_username,
      p2_rows |-> GridRows(p2_board_obj.display_grid, p2_board_obj.size) ]

\* Every board place_ships_randomly(SHIPS) can leave: each ship of the
\* catalogue, in order, at some draw that can_place_ship accepts.
RECURSIVE RandomPlacementsFrom(_, _)
RandomPlacementsFrom(b, k) ==
    IF k > Len(SHIPS) THEN {b}
    ELSE UNION { RandomPlacementsFrom(PlaceShip(b, SHIPS[k].name, d[2], d[3], SHIPS[k].size, d[1]), k + 1) :
                 d \in { d \in (0 .. 1) \X (0 .. (b.size - 1)) \X (0 .. (b.size - 1)) :
                           can_place_ship(b, d[2], d[3], SHIPS[k].size, d[1]) } }
place_ships_randomly(b) == RandomPlacementsFrom(b, 1)

NextTurnAfter_Always(result, shooter, opponent) == opponent

\* The turn handover at the bottom of the loop (battleship.py:809-820): a
\* resolved hit or miss passes the turn, anything else keeps it.
NextTurnAfter(result, shooter, opponent) ==
    IF result \in {"hit", "miss"} THEN opponent ELSE shooter

\* The name the turn loop's handler saves for resumption (battleship.py:823).
turn_for_resumption(actual_current_player_name, opponent_name) ==
    actual_current_player_name

\* The name the setup handlers save when the error carries no state
\* (battleship.py:706, 730; current_player_name_for_turn is not yet bound).
SetupNextTurn(pde_player_name) ==
    IF pde_player_name = player2_username THEN player1_username ELSE player2_username

EngineIdle ==
    /\ epc = "idle"
    /\ eargs = NoArgs
    /\ eplacer = 0
    /\ emode = "choose"
    /\ player1_board = NewBoard(BOARD_SIZE)
    /\ player2_board = NewBoard(BOARD_SIZE)
    /\ current_player_name_for_turn = None
    /\ eraised = NoRaise
    /\ elast = NoLast

\* battleship.py:669-686.  io = "fail": a send of "Game resumed." fails; the
\* except Exception clause swallows the error and the game starts afresh.
EngineStart(io) ==
    /\ epc = "start"
    /\ IF IsResumedArgs(eargs)
       THEN IF io = "ok"
            THEN /\ player1_board' = deserialize(eargs.p1)
                 /\ player2_board' = deserialize(eargs.p2)
                 /\ current_player_name_for_turn' = eargs.next
                 /\ epc' = "turn"
            ELSE /\ player1_board' = NewBoard(BOARD_SIZE)
                 /\ player2_board' = NewBoard(BOARD_SIZE)
                 /\ epc' = "welcome"
                 /\ UNCHANGED current_player_name_for_turn
       ELSE /\ io = "ok"
            /\ player1_board' = NewBoard(BOARD_SIZE)
            /\ player2_board' = NewBoard(BOARD_SIZE)
            /\ epc' = "welcome"
            /\ UNCHANGED current_player_name_for_turn
    \* the boards of a resumed match carry the shots fired so far, and
    \* elast.shot_by keeps who fired the last of them
    /\ elast' = [NoLast EXCEPT !.shot_by = IF IsResumedArgs(eargs) /\ io = "ok"
                                           THEN elast.shot_by ELSE None]
    /\ eargs' = NoArgs        \* the arguments are not read again
    /\ UNCHANGED << player1_username, player2_username, eplacer, emode, eraised,
                    boardVars, codecVars, chatVars, serverVars >>

\* battleship.py:689-695: four sends outside any handler; a failure leaves
\* the engine as PlayerDisconnectedError(recipient, None).
EngineWelcome(io) ==
    /\ epc = "welcome"
    /\ IF io = "ok"
       THEN /\ epc' = "place" /\ eplacer' = 1 /\ emode' = "choose"
            /\ UNCHANGED eraised
       ELSE /\ io \in {"fail_p1", "fail_p2"}
            /\ epc' = "raised"
            /\ eraised' = [ player_name |-> IF io = "fail_p1" THEN player1_username
                                            ELSE player2_username,
                            game_state  |-> NoneState ]
            /\ UNCHANGED << eplacer, emode >>
    /\ UNCHANGED << player1_username, player2_username, eargs, player1_board, player2_board,
                    current_player_name_for_turn, elast,
                    boardVars, codecVars, chatVars, serverVars >>

PlacerName  == IF eplacer = 1 THEN player1_username ELSE player2_username
PlacerBoard == IF eplacer = 1 THEN player1_board ELSE player2_board

\* The engine leaves handle_ship_placement by PlayerDisconnectedError(placer,
\* None) with the placer's board as b; the handler attaches the state.
PlacementRaise(b) ==
    LET b1 == IF eplacer = 1 THEN b ELSE player1_board
        b2 == IF eplacer = 2 THEN b ELSE player2_board
    IN
    /\ epc' = "raised"
    /\ player1_board' = b1
    /\ player2_board' = b2
    /\ eraised' = [ player_name |-> PlacerName,
                    game_state  |-> GameState(b1, b2, SetupNextTurn(PlacerName)) ]
    /\ UNCHANGED << eplacer, emode, current_player_name_for_turn >>

\* handle_ship_placement returned True with the placer's board as b.  What
\* follows are the sends at battleship.py:718-719 (after player 1) or 742-743
\* (after player 2), outside any handler.
PlacementDone(b, io) ==
    /\ player1_board' = (IF eplacer = 1 THEN b ELSE player1_board)
    /\ player2_board' = (IF eplacer = 2 THEN b ELSE player2_board)
    /\ IF io = "ok"
       THEN /\ UNCHANGED eraised
            /\ IF eplacer = 1
               THEN /\ epc' = "place" /\ eplacer' = 2 /\ emode' = "choose"
                    /\ UNCHANGED current_player_name_for_turn
               ELSE /\ epc' = "turn" /\ eplacer' = 0 /\ emode' = "choose"
                    /\ current_player_name_for_turn' = player1_username
       ELSE /\ io \in {"fail_next_p1", "fail_next_p2"}
            /\ epc' = "raised"
            /\ eraised' = [ player_name |-> IF io = "fail_next_p1" THEN player1_username
                                            ELSE player2_username,
                            game_state  |-> NoneState ]
            /\ UNCHANGED << eplacer, emode, current_player_name_for_turn >>

\* battleship.py:580-596 and 648-652: the mode prompt, its answer, and the
\* random placement of the whole catalogue when the answer does not start
\* with M.
\* choice = << >>: the player sends nothing while the engine waits for the
\* answer; elast then records the silence.
PlaceChoose(choice, io) ==
    /\ epc = "place" /\ emode = "choose"
    /\ LET received == recv_from_player_with_timeout(choice) IN
       IF io = "fail_before"
       THEN /\ choice # << >>
            /\ PlacementRaise(PlacerBoard)
            /\ UNCHANGED elast
       ELSE IF received.raised
       THEN /\ io = "ok"
            /\ PlacementRaise(PlacerBoard)
            /\ elast' = [kind |-> "silent", by |-> PlacerName, shot_by |-> None]
       ELSE IF received.value = None
       THEN \* the branch at battleship.py:589-594
            /\ UNCHANGED elast
            /\ \E b \in place_ships_randomly(PlacerBoard) :
                  IF io = "fail_after" THEN PlacementRaise(b) ELSE PlacementDone(b, io)
       ELSE IF Upper(received.value)[1] = "M"
       THEN /\ io = "ok"
            /\ emode' = "manual"
            /\ UNCHANGED << epc, eplacer, player1_board, player2_board,
                            current_player_name_for_turn, eraised, elast >>
       ELSE /\ UNCHANGED elast
            /\ \E b \in place_ships_randomly(PlacerBoard) :
                  IF io = "fail_after" THEN PlacementRaise(b) ELSE PlacementDone(b, io)
    /\ UNCHANGED << player1_username, player2_username, eargs,
                    boardVars, codecVars, chatVars, serverVars >>

\* One pass of the manual loop for the next ship (battleship.py:599-647).
PlaceManual(combined_input, io) ==
    /\ epc = "place" /\ emode = "manual"
    /\ combined_input # << >>
    /\ Len(PlacerBoard.placed_ships) < Len(SHIPS)
    /\ LET ship  == SHIPS[Len(PlacerBoard.placed_ships) + 1]
           parts == Split(Upper(Strip(combined_input)))
           rc    == IF Len(parts) = 2 THEN parse_coordinate(parts[1]) ELSE ParseFail
           orientation_enum ==
               IF Len(parts) # 2 THEN -1
               ELSE IF parts[2] = <<"H">> THEN 0 ELSE IF parts[2] = <<"V">> THEN 1 ELSE -1
           accepted == /\ Len(parts) = 2 /\ rc.ok /\ orientation_enum # -1
                       /\ can_place_ship(PlacerBoard, rc.row, rc.col, ship.size, orientation_enum)
           placed == PlaceShip(PlacerBoard, ship.name, rc.row, rc.col, ship.size, orientation_enum)
       IN
       IF io = "fail_before" \/ Lower(combined_input) = Quit
       THEN /\ io \in {"ok", "fail_before"}
            /\ (Lower(combined_input) = Quit => io = "ok")
            /\ PlacementRaise(PlacerBoard)
       ELSE IF ~ accepted
       THEN IF io = "fail_after" THEN PlacementRaise(PlacerBoard)
            ELSE /\ io = "ok"
                 /\ UNCHANGED << epc, eplacer, emode, player1_board, player2_board,
                                 current_player_name_for_turn, eraised >>
       ELSE IF io = "fail_after" THEN PlacementRaise(placed)
       ELSE IF Len(placed.placed_ships) < Len(SHIPS)
       THEN /\ io = "ok"
            /\ player1_board' = (IF eplacer = 1 THEN placed ELSE player1_board)
            /\ player2_board' = (IF eplacer = 2 THEN placed ELSE player2_board)
            /\ UNCHANGED << epc, eplacer, emode, current_player_name_for_turn, eraised >>
       ELSE PlacementDone(placed, io)
    /\ UNCHANGED << player1_username, player2_username, eargs, elast,
                    boardVars, codecVars, chatVars, serverVars >>

\* The inputs the players type.
MoveInputs  == { <<"A","1">>, <<"a","2">>, <<"B","1">>, <<"C","1">>, <<"A","0","3">>,
                 <<"x">>, <<"Q","u","i","t">> }
\* The second player types fewer of them.
MovesOf(name) == IF name = "bob"
                 THEN { <<"A","1">>, <<"A","0","3">>, <<"Q","u","i","t">> }
                 ELSE MoveInputs \ { <<"A","0","3">> }
ChoiceInputs == { <<"M">>, <<"m">>, <<"R">>, <<"Y","E","S">>, << >> }
PlaceInputs ==  { <<"A","1"," ","H">>, <<"a","1"," ","v">>, <<"B","1"," ","H">>,
                  <<"A","1"," ","D">>, <<"A","1">>, <<"Z","9"," ","H">>,
                  <<"q","u","i","t">> }
SetupIO     == {"ok", "fail_before", "fail_after", "fail_next_p1", "fail_next_p2"}
TurnIO      == {"ok", "fail_before_cur", "fail_before_oth", "fail_after_cur", "fail_after_oth"}


\* One pass of the turn loop (battleship.py:747-820) and, when a send or the
\* receive fails, the handler at 822-833.  io names the first operation of
\* the pass that fails: a send of the prompt phase or the receive for the
\* current player (fail_before_cur), the prompt-phase send to the other
\* player, or a send to either after the input was processed.
TurnStep(guess, io) ==
    /\ epc = "turn"
    /\ guess # << >>
    /\ LET current_player_is_p1 == (current_player_name_for_turn = player1_username)
           current_board_obj  == IF current_player_is_p1 THEN player1_board ELSE player2_board
           opponent_board_obj == IF current_player_is_p1 THEN player2_board ELSE player1_board
           actual_current_player_name ==
               IF current_player_is_p1 THEN player1_username ELSE player2_username
           opponent_name == IF current_player_is_p1 THEN player2_username ELSE player1_username
           rc    == parse_coordinate(guess)
           shot  == IF rc.ok THEN fire_at(opponent_board_obj, rc.row, rc.col)
                    ELSE [board |-> opponent_board_obj, result |-> "parse_error", sunk |-> None]
           kind  == IF io \in {"fail_before_cur", "fail_before_oth"} THEN "no_input"
                    ELSE IF Lower(guess) = Quit THEN "quit"
                    ELSE shot.result
           opp   == IF kind \in {"hit", "miss"} THEN shot.board ELSE opponent_board_obj
           b1    == IF current_player_is_p1 THEN player1_board ELSE opp
           b2    == IF current_player_is_p1 THEN opp ELSE player2_board
           failed_name == IF io \in {"fail_before_oth", "fail_after_oth"}
                          THEN opponent_name ELSE actual_current_player_name
       IN
       /\ io \in TurnIO
       \* after a rejected input only the current player is written to
       /\ (kind \in {"parse_error", "already_shot", "invalid"} => io # "fail_after_oth")
       /\ player1_board' = b1
       /\ player2_board' = b2
       /\ elast' = [kind |-> kind, by |-> actual_current_player_name,
                    shot_by |-> IF kind \in {"hit", "miss"} THEN actual_current_player_name
                                ELSE elast.shot_by]
       /\ IF io # "ok"
          THEN /\ epc' = "raised"
               /\ eraised' =
                     [ player_name |-> failed_name,
                       game_state  |-> GameState(b1, b2,
                           turn_for_resumption(actual_current_player_name, opponent_name)) ]
               /\ UNCHANGED current_player_name_for_turn
          ELSE /\ UNCHANGED eraised
               /\ IF kind = "quit" \/ (kind = "hit" /\ all_ships_sunk(opp))
                  THEN /\ epc' = "returned"
                       /\ UNCHANGED current_player_name_for_turn
                  ELSE /\ epc' = "turn"
                       /\ current_player_name_for_turn' =
                              NextTurnAfter(kind, actual_current_player_name, opponent_name)
    /\ UNCHANGED << player1_username, player2_username, eargs, eplacer, emode,
                    boardVars, codecVars, chatVars, serverVars >>

\* The caller of the engine.  A first call passes no initial state; after a
\* PlayerDisconnectedError that carries a game_state the caller may call
\* again with the state's two snapshots and its next_turn_username, which is
\* how the docstring's "resume from a state" is used (server.py:595-612).
EngineCall ==
    /\ epc = "idle"
    /\ epc' = "start"
    /\ UNCHANGED << player1_username, player2_username, eargs, eplacer, emode, player1_board,
                    player2_board, current_player_name_for_turn, eraised, elast,
                    boardVars, codecVars, chatVars, serverVars >>

EngineResume ==
    /\ epc = "raised"
    /\ eraised.game_state # NoneState
    /\ eargs' = [ p1   |-> eraised.game_state.player1_board_state,
                  p2   |-> eraised.game_state.player2_board_state,
                  next |-> eraised.game_state.next_turn_username ]
    /\ epc' = "start"
    /\ eraised' = NoRaise
    /\ UNCHANGED << player1_username, player2_username, eplacer, emode, player1_board,
                    player2_board, current_player_name_for_turn, elast,
                    boardVars, codecVars, chatVars, serverVars >>

(***************************************************************************)
(* The locks of server.py (lines 36-46).  A thread's use of them is a set   *)
(* of locked sections: the `with` statements it passes between two points  *)
(* where it holds no lock, as a sequence of acquisitions and releases.  A   *)
(* `with` releases its lock on every way out, a return or an exception     *)
(* included.  threading.Lock is not reentrant: an acquisition waits while   *)
(* any thread, the asking one included, is inside the lock's `with`.        *)
(***************************************************************************)
Locks == {"game_lock", "waiting_players_lock", "spectators_lock",
          "active_usernames_lock", "disconnected_players_lock"}

LockTasks == {"run_game_server", "handle_waiting_player", "handle_spectator",
              "handle_game_session"}

\* `with lock:` around a body.
With(lock, body) ==
    << [op |-> "acquire", lock |-> lock] >> \o body \o << [op |-> "release", lock |-> lock] >>

\* run_game_server with handle_reconnection's second `with` inside its first.
run_game_server_sections_NestedReconnect ==
    { With("disconnected_players_lock", With("active_usernames_lock", << >>)),
      With("active_usernames_lock", << >>),
      With("game_lock", With("waiting_players_lock", With("spectators_lock", << >>))) }

\* The admission loop, with check_username_available and handle_reconnection,
\* which it calls.
run_game_server_sections ==
    LET active       == With("active_usernames_lock", << >>)
        disconnected == With("disconnected_players_lock", << >>)
    IN
    { \* check_username_available returning 'disconnected' (1118-1127)
      active \o disconnected \o disconnected,
      \* check_username_available otherwise (1118-1139)
      active \o disconnected \o disconnected \o active,
      \* handle_reconnection refusing (920-933) and accepting (920-946)
      disconnected,
      disconnected \o active,
      \* the registration (1018-1019), the clean-up after an error (1065-1068)
      active,
      \* the hand-off (1022-1057) and the poll of the spectators (1074-1104):
      \* a game in progress; the queue looked at; the spectators written to
      With("game_lock", << >>),
      With("game_lock", With("waiting_players_lock", << >>)),
      With("game_lock", With("waiting_players_lock", With("spectators_lock", << >>))) }

\* broadcast_chat_message (87-93) for a chat line; the finally block (351-354).
handle_waiting_player_sections ==
    { With("active_usernames_lock", << >>) \o With("spectators_lock", << >>),
      With("active_usernames_lock", << >>) }

\* The look-up of the own username (364-368), the registration and the
\* removal (402-405, 512-515), broadcast_chat_message (407, 476, 517).
handle_spectator_sections ==
    { With("active_usernames_lock", << >>),
      With("spectators_lock", << >>),
      With("active_usernames_lock", << >>) \o With("spectators_lock", << >>) }

\* handle_game_session, with notify_spectators, handle_player_disconnect and
\* the engine's readline, which it calls.
handle_game_session_sections ==
    { \* 616-625, 746-747, 880-895; the poll that does not see the player (720-721)
      With("active_usernames_lock", << >>),
      \* 693-704, 899-903
      With("disconnected_players_lock", << >>),
      \* notify_spectators (525-546); 784-785, 797-799, 827-828
      With("spectators_lock", << >>),
      \* handle_player_disconnect (249-258)
      With("disconnected_players_lock", << >>) \o With("active_usernames_lock", << >>),
      \* the poll that sees the player back (720-734)
      With("active_usernames_lock", With("disconnected_players_lock", << >>)),
      \* 838-845
      With("waiting_players_lock", << >>),
      \* 912-913
      With("game_lock", << >>),
      \* broadcast_chat_message from ProtocolAdapter.readline (189)
      With("active_usernames_lock", << >>) \o With("spectators_lock", << >>) }

LockSections(task) ==
    CASE task = "run_game_server"       -> run_game_server_sections
      [] task = "handle_waiting_player" -> handle_waiting_player_sections
      [] task = "handle_spectator"      -> handle_spectator_sections
      [] task = "handle_game_session"   -> handle_game_session_sections

NoLocksHeld ==
    /\ lock_owner = [l \in Locks |-> None]
    /\ lock_task = [t \in LockTasks |-> << >>]

\* A thread comes to one of its locked sections.
LockEnter(task, section) ==
    /\ lock_task[task] = << >>
    /\ section \in LockSections(task)
    /\ lock_task' = [lock_task EXCEPT ![task] = section]
    /\ UNCHANGED << lock_owner, chat_writing, serverVars, engineVars, boardVars, codecVars >>

\* Lock.__enter__: it returns once no thread is inside the `with`.
LockAcquire(task) ==
    /\ lock_task[task] # << >>
    /\ Head(lock_task[task]).op = "acquire"
    /\ lock_owner[Head(lock_task[task]).lock] = None
    /\ lock_owner' = [lock_owner EXCEPT ![Head(lock_task[task]).lock] = task]
    /\ lock_task' = [lock_task EXCEPT ![task] = Tail(@)]
    /\ UNCHANGED << chat_writing, serverVars, engineVars, boardVars, codecVars >>

\* Lock.__exit__.
LockRelease(task) ==
    /\ lock_task[task] # << >>
    /\ Head(lock_task[task]).op = "release"
    /\ lock_owner' = [lock_owner EXCEPT ![Head(lock_task[task]).lock] = None]
    /\ lock_task' = [lock_task EXCEPT ![task] = Tail(@)]
    /\ UNCHANGED << chat_writing, serverVars, engineVars, boardVars, codecVars >>

(***************************************************************************)
(* Initial values: the module-level state of server.py (lines 35-50) and   *)
(* threads that have not started.                                          *)
(***************************************************************************)
DummyGame == [player1 |-> "Waiting for players", player2 |-> "Waiting for players",
              game_id |-> None, game_state |-> "waiting"]
EmptyMap  == [u \in {} |-> None]
NoRematch == [bound |-> FALSE, p1 |-> FALSE, p2 |-> FALSE]

ServerIdle ==
    /\ active_usernames = EmptyMap
    /\ disconnected_players = EmptyMap
    /\ waiting_players = << >>
    /\ current_game_spectators = << >>
    /\ game_in_progress = FALSE
    /\ current_game = DummyGame
    /\ nextConn = 1
    /\ closed = {}
    /\ sent = {}
    /\ now = 0
    /\ stop_events = {}
    /\ chat_writing = EmptyMap
    /\ NoLocksHeld
    /\ lobbyThreads = EmptyMap
    /\ specThreads = EmptyMap
    /\ sessionThreads = {}
    /\ conn_username = EmptyMap
    /\ apc = "accept" /\ aconn = 0 /\ apkt = None /\ ausername = None
    /\ spc = "none"
    /\ game_id = None
    /\ player1_adapter_conn = 0
    /\ player2_adapter_conn = 0
    /\ resumed_game_state = NoneState
    /\ rematch = NoRematch
    /\ disconnected_player_name = None
    /\ wait_start_time = 0

NoPlayers == player1_username = None /\ player2_username = None

(***************************************************************************)
(*                         src/server.py                                   *)
(***************************************************************************)
RECONNECT_TIMEOUT == 1
MaxConns == 4
MaxTime  == 2
Usernames == {"alice", "bob", "carol"}

MapPut(f, k, v) == [x \in DOMAIN f \cup {k} |-> IF x = k THEN v ELSE f[x]]
MapDel(f, k)    == [x \in DOMAIN f \ {k} |-> f[x]]
SeqWithout(seq, gone) == SelectSeq(seq, LAMBDA x : x \notin gone)
SeqElems(seq)   == { seq[i] : i \in 1 .. Len(seq) }

RealGame(player1, player2, id) ==
    [player1 |-> player1, player2 |-> player2, game_id |-> id, game_state |-> "setup"]

InUseMessage == "Username already in use by another player."

\* A variant that looks in active_usernames before disconnected_players.
check_username_available_ActiveFirst(username) ==
    LET known   == username \in DOMAIN disconnected_players
        elapsed == IF known THEN now - disconnected_players[username].disconnect_time ELSE 0
        swept   == IF known /\ elapsed > RECONNECT_TIMEOUT
                   THEN MapDel(disconnected_players, username) ELSE disconnected_players
    IN  IF username \in DOMAIN active_usernames
        THEN [available |-> FALSE, message |-> InUseMessage, disconnected |-> swept]
        ELSE IF known /\ elapsed <= RECONNECT_TIMEOUT
        THEN [available |-> FALSE, message |-> "disconnected", disconnected |-> swept]
        ELSE [available |-> TRUE, message |-> None, disconnected |-> swept]

\* A variant without the look-up in active_usernames.
check_username_available_NoActive(username) ==
    LET known   == username \in DOMAIN disconnected_players
        elapsed == IF known THEN now - disconnected_players[username].disconnect_time ELSE 0
        swept   == IF known /\ elapsed > RECONNECT_TIMEOUT
                   THEN MapDel(disconnected_players, username) ELSE disconnected_players
    IN  IF known /\ elapsed <= RECONNECT_TIMEOUT
        THEN [available |-> FALSE, message |-> "disconnected", disconnected |-> swept]
        ELSE [available |-> TRUE, message |-> None, disconnected |-> swept]

\* check_username_available: the classification, and disconnected_players
\* after the check has dropped the name's expired record.
check_username_available(username) ==
    LET known   == username \in DOMAIN disconnected_players
        elapsed == IF known THEN now - disconnected_players[username].disconnect_time ELSE 0
        swept   == IF known /\ elapsed > RECONNECT_TIMEOUT
                   THEN MapDel(disconnected_players, username) ELSE disconnected_players
    IN  IF known /\ elapsed <= RECONNECT_TIMEOUT
        THEN [available |-> FALSE, message |-> "disconnected", disconnected |-> swept]
        ELSE IF username \in DOMAIN active_usernames
        THEN [available |-> FALSE, message |-> InUseMessage, disconnected |-> swept]
        ELSE [available |-> TRUE, message |-> None, disconnected |-> swept]

\* receive_packet as run_game_server, line 966, sees it.  What arrives on
\* the connection within the 5 s deadline is one of: nothing or bytes that
\* do not verify ("invalid"), a verified packet of another type
\* ("not_username"), a verified USERNAME packet with an empty payload
\* ("empty"), a verified USERNAME packet carrying name ("username").
receive_packet(pkt, name) ==
    CASE pkt = "invalid"      -> [valid |-> FALSE, packet_type |-> None, payload |-> None]
      [] pkt = "not_username" -> [valid |-> TRUE, packet_type |-> "MOVE", payload |-> name]
      [] pkt = "empty"        -> [valid |-> TRUE, packet_type |-> "USERNAME", payload |-> ""]
      [] pkt = "username"     -> [valid |-> TRUE, packet_type |-> "USERNAME", payload |-> name]

\* run_game_server, lines 961-1015: accept a connection, read its first
\* packet, classify the username; reject, treat as a reconnection
\* (handle_reconnection), or register it in active_usernames.
AdmitAccept(pkt, name) ==
    /\ apc = "accept"
    /\ nextConn <= MaxConns
    /\ LET conn  == nextConn
           first == receive_packet(pkt, name)
           chk   == check_username_available(name)
       IN
       /\ nextConn' = nextConn + 1
       /\ aconn' = conn
       /\ apkt' = pkt
       /\ CASE ~ first.valid \/ first.payload \in {None, ""} ->
                 \* lines 968-971: closed, nothing is sent
                 /\ closed' = closed \cup {conn}
                 /\ UNCHANGED << sent, active_usernames, disconnected_players, apc,
                                 ausername, conn_username >>
            [] first.valid /\ first.payload \notin {None, ""}
               /\ first.packet_type # "USERNAME" ->
                 /\ sent' = sent \cup {<<conn, "ERROR", "Expected USERNAME packet first.">>}
                 /\ closed' = closed \cup {conn}
                 /\ UNCHANGED << active_usernames, disconnected_players, apc, ausername,
                                 conn_username >>
            [] OTHER ->
                 \* username = payload_str is not empty here, so the test at
                 \* lines 983-987 never succeeds
                 /\ ausername' = first.payload
                 /\ conn_username' = MapPut(conn_username, conn, name)
                 /\ disconnected_players' = chk.disconnected
                 /\ IF chk.available
                    THEN /\ active_usernames' = MapPut(active_usernames, name, conn)
                         /\ apc' = "handoff"
                         /\ UNCHANGED << sent, closed >>
                    ELSE IF chk.message = "disconnected"
                    THEN \* handle_reconnection
                         LET had == name \in DOMAIN active_usernames
                             old_conn == IF had THEN active_usernames[name] ELSE conn
                         IN /\ active_usernames' = MapPut(active_usernames, name, conn)
                            /\ IF old_conn # conn
                               THEN /\ sent' = sent \cup {<<old_conn, "ERROR",
                                                  "Another client reconnected with your username.">>}
                                    /\ closed' = closed \cup {old_conn}
                               ELSE UNCHANGED << sent, closed >>
                            /\ UNCHANGED apc
                    ELSE /\ sent' = sent \cup {<<conn, "ERROR", chk.message>>}
                         /\ closed' = closed \cup {conn}
                         /\ UNCHANGED << active_usernames, apc >>
    /\ UNCHANGED << waiting_players, current_game_spectators, game_in_progress, current_game,
                    now, stop_events, lobbyThreads, specThreads, sessionThreads,
                    sessionVars, engineVars, boardVars, codecVars, chatVars >>

\* A variant that never pairs: whoever is not a spectator waits.
HandOff_NeverPairs(in_progress, qsize) == IF in_progress THEN "spectator" ELSE "lobby"

\* A variant that does not look at game_in_progress.
HandOff_IgnoreProgress(in_progress, qsize) == IF qsize >= 1 THEN "session" ELSE "lobby"

\* Where run_game_server sends a registered connection (lines 1018-1057).
HandOff(in_progress, qsize) ==
    IF in_progress THEN "spectator" ELSE IF qsize >= 1 THEN "session" ELSE "lobby"

\* run_game_server, lines 1017-1057, under game_lock.
AdmitHandOff ==
    /\ apc = "handoff"
    /\ apc' = "poll"
    /\ LET target == HandOff(game_in_progress, Len(waiting_players)) IN
       CASE target = "spectator" ->
              /\ specThreads' = MapPut(specThreads, aconn, "start")
              /\ UNCHANGED << waiting_players, stop_events, lobbyThreads, game_in_progress,
                              current_game, sessionThreads, sessionVars,
                              player1_username, player2_username >>
         [] target = "session" ->
              LET first == Head(waiting_players)
                  id    == << first.username, ausername, now >>
              IN /\ waiting_players' = Tail(waiting_players)
                 /\ stop_events' = stop_events \cup {first.conn}
                 /\ game_in_progress' = TRUE
                 /\ current_game' = RealGame(first.username, ausername, id)
                 /\ sessionThreads' = sessionThreads \cup {id}
                 /\ spc' = "start"
                 /\ game_id' = id
                 /\ player1_username' = first.username
                 /\ player2_username' = ausername
                 /\ player1_adapter_conn' = first.conn
                 /\ player2_adapter_conn' = aconn
                 /\ resumed_game_state' = NoneState
                 /\ rematch' = NoRematch
                 \* line 1034 sleeps 0.3 s: a handler that was in
                 \* stop_event.wait (line 296) has ended by now, one that was
                 \* inside receive_packet (line 301, timeout 2.0 s) has not
                 /\ lobbyThreads' \in {lobbyThreads, MapDel(lobbyThreads, first.conn)}
                 /\ UNCHANGED << specThreads, disconnected_player_name, wait_start_time >>
         [] target = "lobby" ->
              /\ waiting_players' = Append(waiting_players, [conn |-> aconn, username |-> ausername])
              /\ lobbyThreads' = MapPut(lobbyThreads, aconn, ausername)
              /\ stop_events' = stop_events \ {aconn}
              /\ UNCHANGED << specThreads, game_in_progress, current_game, sessionThreads,
                              sessionVars, player1_username, player2_username >>
    /\ UNCHANGED << active_usernames, disconnected_players, current_game_spectators,
                    envVars, conn_username, aconn, apkt, ausername, boardVars, codecVars, chatVars,
                    epc, eargs, eplacer, emode, player1_board, player2_board,
                    current_player_name_for_turn, eraised, elast >>

\* run_game_server, lines 1074-1104: with no match and nobody waiting, each
\* spectator is asked to play; those who answer YES or cannot be written to
\* are dropped from the spectator list and closed.
AdmitPoll(gone) ==
    /\ apc = "poll"
    /\ spc # "notify" \/ game_in_progress
    /\ apc' = "accept"
    /\ gone \subseteq SeqElems(current_game_spectators)
    /\ IF ~ game_in_progress /\ waiting_players = << >>
       THEN /\ current_game_spectators' = SeqWithout(current_game_spectators, gone)
            /\ closed' = closed \cup gone
       ELSE /\ gone = {}
            /\ UNCHANGED << current_game_spectators, closed >>
    /\ UNCHANGED << active_usernames, disconnected_players, waiting_players, game_in_progress,
                    current_game, nextConn, sent, now, stop_events, lobbyThreads, specThreads,
                    sessionThreads, conn_username, aconn, apkt, ausername,
                    sessionVars, engineVars, boardVars, codecVars, chatVars >>

\* handle_waiting_player, summoned while it was inside receive_packet, leaves
\* its loop when that call returns and line 303 finds the stop_event set: the
\* player moves to a game and nothing is cleaned up (lines 301-305, 358-359).
LobbyStopped(conn) ==
    /\ conn \in DOMAIN lobbyThreads
    /\ conn \notin DOMAIN chat_writing
    /\ conn \in stop_events
    /\ lobbyThreads' = MapDel(lobbyThreads, conn)
    /\ UNCHANGED << globalVars, envVars, stop_events, specThreads, sessionThreads,
                    conn_username, apc, aconn, apkt, ausername,
                    sessionVars, engineVars, boardVars, codecVars, chatVars >>

\* handle_waiting_player returns on quit, DISCONNECT or a socket error
\* (lines 311-339) and its finally block (346-359) releases the name if the
\* name is still bound to this connection.  The queue entry stays.
LobbyLeave(conn) ==
    /\ conn \in DOMAIN lobbyThreads
    /\ conn \notin DOMAIN chat_writing
    /\ lobbyThreads' = MapDel(lobbyThreads, conn)
    /\ LET username == lobbyThreads[conn] IN
       IF conn \notin stop_events
       THEN /\ active_usernames' =
                 IF username \in DOMAIN active_usernames /\ active_usernames[username] = conn
                 THEN MapDel(active_usernames, username) ELSE active_usernames
            /\ closed' = closed \cup {conn}
       ELSE UNCHANGED << active_usernames, closed >>
    /\ UNCHANGED << disconnected_players, waiting_players, current_game_spectators,
                    game_in_progress, current_game, nextConn, sent, now, stop_events,
                    specThreads, sessionThreads, conn_username, apc, aconn, apkt, ausername,
                    sessionVars, engineVars, boardVars, codecVars, chatVars >>

\* handle_spectator up to its loop (lines 361-408): a failed welcome send
\* ends the thread through the finally block, otherwise the connection joins
\* current_game_spectators.
SpectatorStart(conn, io) ==
    /\ spc # "notify"
    /\ conn \in DOMAIN specThreads
    /\ specThreads[conn] = "start"
    /\ IF io = "ok"
       THEN /\ specThreads' = MapPut(specThreads, conn, "loop")
            /\ current_game_spectators' =
                 IF conn \in SeqElems(current_game_spectators) THEN current_game_spectators
                 ELSE Append(current_game_spectators, conn)
            /\ UNCHANGED closed
       ELSE /\ io = "fail"
            /\ specThreads' = MapDel(specThreads, conn)
            /\ current_game_spectators' = SeqWithout(current_game_spectators, {conn})
            /\ closed' = closed \cup {conn}
    /\ UNCHANGED << active_usernames, disconnected_players, waiting_players, game_in_progress,
                    current_game, nextConn, sent, now, stop_events, lobbyThreads,
                    sessionThreads, conn_username, apc, aconn, apkt, ausername,
                    sessionVars, engineVars, boardVars, codecVars, chatVars >>

\* handle_spectator leaves its loop (quit, or too many socket errors) and
\* runs its finally block (lines 511-521).  The name stays in active_usernames.
SpectatorLeave(conn) ==
    /\ spc # "notify"
    /\ conn \in DOMAIN specThreads
    /\ conn \notin DOMAIN chat_writing
    /\ specThreads[conn] = "loop"
    /\ specThreads' = MapDel(specThreads, conn)
    /\ current_game_spectators' = SeqWithout(current_game_spectators, {conn})
    /\ closed' = closed \cup {conn}
    /\ UNCHANGED << active_usernames, disconnected_players, waiting_players, game_in_progress,
                    current_game, nextConn, sent, now, stop_events, lobbyThreads,
                    sessionThreads, conn_username, apc, aconn, apkt, ausername,
                    sessionVars, engineVars, boardVars, codecVars, chatVars >>

MoveRestriction == "As a spectator, you cannot make moves."

\* A variant that answers a spectator's MOVE on every registered connection.
move_answer_recipients_All(conn) ==
    {conn} \cup { active_usernames[u] : u \in DOMAIN active_usernames }

\* Whom handle_spectator writes to when it answers a MOVE packet (line 484).
move_answer_recipients(conn) == {conn}

\* One pass of handle_spectator's loop on a verified packet that is neither
\* a chat line nor quit (lines 440-488): a HEARTBEAT is answered with an ACK
\* and a MOVE with a chat line that says spectators cannot move.
SpectatorPacket(conn, ptype) ==
    /\ conn \in DOMAIN specThreads
    /\ specThreads[conn] = "loop"
    /\ conn \notin DOMAIN chat_writing
    /\ ptype \in {"MOVE", "HEARTBEAT"}
    /\ sent' = IF ptype = "MOVE"
               THEN sent \cup { <<c, "CHAT", MoveRestriction>> : c \in move_answer_recipients(conn) }
               ELSE sent
    /\ UNCHANGED << globalVars, nextConn, closed, now, threadVars, sessionVars, engineVars,
                    boardVars, codecVars, chatVars >>

\* A waiting handler (line 317) or a spectator handler (line 476) in its loop
\* has received a chat line and broadcast_chat_message, holding no lock,
\* enters send_packet for one of the recipients it collected (lines 85-99):
\* every connection in active_usernames but the sender's own name, and every
\* spectator.
ChatSend(task, to) ==
    /\ \/ task \in DOMAIN lobbyThreads /\ task \notin stop_events
       \/ task \in DOMAIN specThreads /\ specThreads[task] = "loop"
    /\ task \notin DOMAIN chat_writing
    /\ spc # "notify"
    /\ LET sender_username == conn_username[task]
           recipients ==
               { active_usernames[u] : u \in DOMAIN active_usernames \ {sender_username} }
               \cup SeqElems(current_game_spectators)
       IN to \in recipients
    /\ chat_writing' = MapPut(chat_writing, task, to)
    /\ UNCHANGED << lockVars, serverVars, engineVars, boardVars, codecVars >>

\* That send_packet returns; a failure is swallowed (lines 100-101).
ChatSent(task) ==
    /\ task \in DOMAIN chat_writing
    /\ chat_writing' = MapDel(chat_writing, task)
    /\ UNCHANGED << lockVars, serverVars, engineVars, boardVars, codecVars >>

(***************************************************************************)
(* handle_game_session (server.py:574-915).                                *)
(***************************************************************************)
\* The parameters of battleship.run_two_player_game (battleship.py:479-484)
\* and the arguments of the call at server.py:644-652: six positional
\* arguments, five keyword arguments.
RunGameParams == << "player1_rfile", "player1_wfile", "player2_rfile", "player2_wfile",
                    "notify_spectators_callback", "player1_username", "player2_username",
                    "initial_player1_board_state", "initial_player2_board_state",
                    "initial_current_player_name" >>
CallPositional == 6
CallKeywords == { "player1_username", "player2_username", "initial_player1_board_state",
                  "initial_player2_board_state", "initial_current_player_name" }

\* Python binds a call when no keyword names a parameter that a positional
\* argument has already filled; otherwise the call raises TypeError before
\* the function body runs.
ArgumentsBind(params, npos, keywords) ==
    /\ npos <= Len(params)
    /\ \A k \in keywords : \E i \in (npos + 1) .. Len(params) : params[i] = k
RunGameCallBinds == ArgumentsBind(RunGameParams, CallPositional, CallKeywords)

GameStateOf(game, state) == [game EXCEPT !.game_state = state]

\* The finally block (lines 871-915), entered with the given values of the
\* maps, the closed connections, current_game and the rematch answers.  Its first
\* statement reads player1_wants_rematch: if no match of this session ended
\* by play the name is unbound, UnboundLocalError leaves the block at once
\* and the thread dies.
SessionFinally(act, disc, cl, game, wants) ==
    IF ~ wants.bound
    THEN /\ active_usernames' = act
         /\ disconnected_players' = disc
         /\ closed' = cl
         /\ current_game' = game
         /\ spc' = "dead"
         /\ sessionThreads' = sessionThreads \ {game_id}
         /\ UNCHANGED game_in_progress
    ELSE LET staying_player_username ==
                 IF wants.p1 /\ ~ wants.p2 THEN player1_username
                 ELSE IF wants.p2 /\ ~ wants.p1 THEN player2_username ELSE None
             act1 == IF /\ player1_username \in DOMAIN act
                        /\ act[player1_username] = player1_adapter_conn
                        /\ staying_player_username # player1_username
                     THEN MapDel(act, player1_username) ELSE act
             act2 == IF /\ player2_username \in DOMAIN act1
                        /\ act1[player2_username] = player2_adapter_conn
                        /\ staying_player_username # player2_username
                     THEN MapDel(act1, player2_username) ELSE act1
             disc1 == IF /\ player1_username \in DOMAIN disc
                         /\ disc[player1_username].game_id = game_id
                      THEN MapDel(disc, player1_username) ELSE disc
             disc2 == IF /\ player2_username \in DOMAIN disc1
                         /\ disc1[player2_username].game_id = game_id
                      THEN MapDel(disc1, player2_username) ELSE disc1
         IN /\ active_usernames' = act2
            /\ disconnected_players' = disc2
            /\ closed' = cl \cup (IF staying_player_username # player1_username
                                  THEN {player1_adapter_conn} ELSE {})
                            \cup (IF staying_player_username # player2_username
                                  THEN {player2_adapter_conn} ELSE {})
            /\ game_in_progress' = FALSE
            /\ current_game' = DummyGame
            /\ spc' = "ended"
            /\ sessionThreads' = sessionThreads \ {game_id}

\* The values of the engine's locals when a call begins.
EngineCalled(args) ==
    /\ epc' = "start"
    /\ eargs' = args
    /\ eplacer' = 0
    /\ emode' = "choose"
    /\ player1_board' = NewBoard(BOARD_SIZE)
    /\ player2_board' = NewBoard(BOARD_SIZE)
    /\ current_player_name_for_turn' = None
    /\ eraised' = NoRaise
    /\ elast' = [NoLast EXCEPT !.shot_by = IF IsResumedArgs(args) THEN elast.shot_by ELSE None]

\* The top of the session's loop for a new match (lines 588-594, 634-641):
\* GAME_START goes to both players and the session enters notify_spectators,
\* which takes spectators_lock (line 525).  At "notify" the session holds
\* that lock; SpectatorStart, SpectatorLeave, ChatSend and the poll of
\* AdmitPoll, which take it too, wait.
SessionNotify ==
    /\ spc = "start"
    /\ resumed_game_state = NoneState
    /\ spc' = "notify"
    /\ UNCHANGED << globalVars, envVars, threadVars, game_id, player1_adapter_conn,
                    player2_adapter_conn, resumed_game_state, rematch,
                    disconnected_player_name, wait_start_time, engineVars, boardVars,
                    codecVars, chatVars >>

\* The rest of the loop's top up to the call of run_two_player_game (lines
\* 595-633 for a resumed match; for a new one 526-546, where notify_spectators
\* writes to each spectator and then releases spectators_lock; and 643-652).
\* binds: whether the call binds its arguments.  When it does not, TypeError
\* reaches the handler at 864-870 and then the finally block.  gone: the
\* spectators notify_spectators fails to write to.
SessionCallWith(binds, gone) ==
    /\ spc = (IF resumed_game_state = NoneState THEN "notify" ELSE "start")
    /\ gone \subseteq SeqElems(current_game_spectators)
    /\ LET resumed == resumed_game_state # NoneState
           p1c == IF resumed /\ player1_username \in DOMAIN active_usernames
                  THEN active_usernames[player1_username] ELSE player1_adapter_conn
           p2c == IF resumed /\ player2_username \in DOMAIN active_usernames
                  THEN active_usernames[player2_username] ELSE player2_adapter_conn
           args == IF resumed
                   THEN [ p1   |-> resumed_game_state.player1_board_state,
                          p2   |-> resumed_game_state.player2_board_state,
                          next |-> resumed_game_state.next_turn_username ]
                   ELSE NoArgs
           game == IF resumed THEN current_game ELSE GameStateOf(current_game, "starting")
           sent1 == sent
           cl1 == closed \cup (IF resumed THEN {} ELSE gone)
       IN
       /\ player1_adapter_conn' = p1c
       /\ player2_adapter_conn' = p2c
       /\ resumed_game_state' = NoneState
       /\ current_game_spectators' =
              IF resumed /\ binds THEN current_game_spectators
              ELSE SeqWithout(current_game_spectators, gone)
       /\ (resumed /\ binds => gone = {})
       /\ IF binds
          THEN /\ EngineCalled(args)
               /\ spc' = "engine"
               /\ sent' = sent1
               /\ closed' = cl1
               /\ current_game' = game
               /\ UNCHANGED << active_usernames, disconnected_players, game_in_progress,
                               sessionThreads >>
          ELSE /\ sent' = sent1 \cup {<<p1c, "ERROR", "A fatal server error occurred.">>,
                                      <<p2c, "ERROR", "A fatal server error occurred.">>}
               /\ SessionFinally(active_usernames, disconnected_players, closed \cup gone, game, rematch)
               /\ UNCHANGED << epc, eargs, eplacer, emode, player1_board, player2_board,
                               current_player_name_for_turn, eraised, elast >>
    /\ UNCHANGED << waiting_players, nextConn, now, stop_events, lobbyThreads, specThreads,
                    conn_username, apc, aconn, apkt, ausername, game_id, rematch,
                    disconnected_player_name, wait_start_time,
                    player1_username, player2_username, boardVars, codecVars, chatVars >>

\* The call as server.py writes it.
SessionCall(gone) == SessionCallWith(RunGameCallBinds, gone)

\* The engine returned: the match was played to its end or a player quit
\* (lines 653, 769-862), followed by the finally block unless both players
\* want a rematch.  a1, a2: what ask_play_again returns for each player.
SessionGameOver(a1, a2) ==
    /\ spc = "engine"
    /\ epc = "returned"
    /\ epc' = "idle"
    /\ rematch' = [bound |-> TRUE, p1 |-> a1, p2 |-> a2]
    /\ LET p1c == player1_adapter_conn
           p2c == player2_adapter_conn
           over == sent
           available_spectators == current_game_spectators
           staying_conn == IF a1 THEN p1c ELSE p2c
           leaving_conn == IF a1 THEN p2c ELSE p1c
           staying_name == IF a1 THEN player1_username ELSE player2_username
           drafted == IF ~ a1 /\ ~ a2
                      THEN (IF Len(available_spectators) >= 2
                            THEN {available_spectators[1], available_spectators[2]} ELSE {})
                      ELSE (IF Len(available_spectators) >= 1
                            THEN {available_spectators[1]} ELSE {})
           declined == IF ~ a1 /\ ~ a2
                       THEN {<<p1c, "GAME_END", "You declined rematch.">>,
                             <<p2c, "GAME_END", "You declined rematch.">>}
                       ELSE {<<leaving_conn, "GAME_END", "You declined rematch.">>}
                            \cup (IF drafted = {}
                                  THEN {<<staying_conn, "GAME_END", "No spectators available.">>}
                                  ELSE {})
           thanks == (IF ~ (a1 /\ ~ a2) THEN {<<p1c, "GAME_END", "Thank you for playing!">>}
                      ELSE {})
                     \cup (IF ~ (a2 /\ ~ a1)
                           THEN {<<p2c, "GAME_END", "Thank you for playing!">>} ELSE {})
       IN
       IF a1 /\ a2
       THEN /\ spc' = "start"
            /\ sent' = over
            /\ current_game' = GameStateOf(current_game, "completed")
            /\ UNCHANGED << active_usernames, disconnected_players, closed, game_in_progress,
                            sessionThreads, current_game_spectators, waiting_players >>
       ELSE /\ sent' = over \cup declined \cup thanks
            /\ current_game_spectators' = SeqWithout(current_game_spectators, drafted)
            /\ waiting_players' =
                 IF a1 # a2 /\ drafted # {}
                 THEN Append(waiting_players, [conn |-> staying_conn, username |-> staying_name])
                 ELSE waiting_players
            /\ SessionFinally(active_usernames, disconnected_players, closed \cup drafted,
                              GameStateOf(current_game, "completed"), [bound |-> TRUE, p1 |-> a1, p2 |-> a2])
    /\ UNCHANGED << nextConn, now, stop_events, lobbyThreads, specThreads, conn_username,
                    apc, aconn, apkt, ausername, game_id, player1_adapter_conn,
                    player2_adapter_conn, resumed_game_state, disconnected_player_name,
                    wait_start_time, player1_username, player2_username, eargs, eplacer,
                    emode, player1_board, player2_board, current_player_name_for_turn,
                    eraised, elast, boardVars, codecVars, chatVars >>

\* The engine left by PlayerDisconnectedError (lines 655-662) and the first
\* critical section of handle_player_disconnect (lines 249-253): the player
\* is entered in disconnected_players, and disconnected_players_lock is
\* released before active_usernames_lock is taken.
SessionMark ==
    /\ spc = "engine"
    /\ epc = "raised"
    /\ disconnected_players' =
           MapPut(disconnected_players, eraised.player_name,
                  [disconnect_time |-> now, opponent_username |-> None,
                   game_id |-> None, game_state |-> NoneState])
    /\ spc' = "marked"
    /\ UNCHANGED << active_usernames, waiting_players, current_game_spectators,
                    game_in_progress, current_game, envVars, threadVars, game_id,
                    player1_adapter_conn, player2_adapter_conn, resumed_game_state, rematch,
                    disconnected_player_name, wait_start_time, engineVars, boardVars,
                    codecVars, chatVars >>

\* The rest of handle_player_disconnect (lines 255-268) and of the handler
\* (664-718): the name leaves active_usernames, the player's connection is
\* closed, the state to resume from is saved under the player's name and
\* the wait begins.
SessionDisconnect ==
    /\ spc = "marked"
    /\ epc = "raised"
    /\ LET first == (eraised.player_name = player1_username)
           conn  == IF first THEN player1_adapter_conn ELSE player2_adapter_conn
           player_name == IF first THEN player1_username ELSE player2_username
           disconnected_name == eraised.player_name
           other_player_name ==
               IF disconnected_name = player1_username THEN player2_username
               ELSE player1_username
           other_conn == IF disconnected_name = player1_username
                         THEN player2_adapter_conn ELSE player1_adapter_conn
           saved_state ==
               IF eraised.game_state # NoneState
               THEN [ player1_of_state    |-> player1_username,
                      player2_of_state    |-> player2_username,
                      player1_board_state |-> eraised.game_state.player1_board_state,
                      player2_board_state |-> eraised.game_state.player2_board_state,
                      next_turn_username  |-> eraised.game_state.next_turn_username ]
               ELSE [ player1_of_state    |-> player1_username,
                      player2_of_state    |-> player2_username,
                      player1_board_state |-> NoneState,
                      player2_board_state |-> NoneState,
                      next_turn_username  |-> other_player_name ]
           marked == disconnected_players
       IN
       /\ active_usernames' = MapDel(active_usernames, player_name)
       /\ closed' = closed \cup {conn}
       /\ disconnected_players' =
              MapPut(marked, disconnected_name,
                     [ disconnect_time   |-> now,
                       opponent_username |-> other_player_name,
                       game_id           |-> game_id,
                       game_state        |-> saved_state ])
       /\ sent' = sent \cup {<<conn, "ERROR", "Connection lost.">>}
       /\ disconnected_player_name' = disconnected_name
    /\ current_game' = GameStateOf(current_game, "interrupted_waiting_reconnect")
    /\ wait_start_time' = now
    /\ spc' = "wait"
    /\ epc' = "idle"
    /\ eraised' = NoRaise
    /\ UNCHANGED << waiting_players, current_game_spectators, game_in_progress, nextConn, now,
                    threadVars, game_id, player1_adapter_conn, player2_adapter_conn,
                    resumed_game_state, rematch, player1_username, player2_username,
                    eargs, eplacer, emode, player1_board, player2_board,
                    current_player_name_for_turn, elast, boardVars, codecVars, chatVars >>

\* The forfeit (lines 757-767) and what follows it: the session's loop ends
\* and the finally block runs.
SessionForfeit ==
    LET other_conn == IF disconnected_player_name = player1_username
                      THEN player2_adapter_conn ELSE player1_adapter_conn
    IN /\ sent' = sent \cup {<<other_conn, "GAME_END", "You win by default!">>}
       /\ SessionFinally(active_usernames, disconnected_players, closed,
                         GameStateOf(current_game, "completed_by_forfeit"), rematch)
       /\ UNCHANGED << resumed_game_state, player1_adapter_conn, player2_adapter_conn,
                       disconnected_player_name >>

\* One pass of the wait loop that finds the player in active_usernames
\* (lines 717-741), and the resumption (743-755) or forfeit that follows.
SessionPoll ==
    /\ spc = "wait"
    /\ now - wait_start_time < RECONNECT_TIMEOUT
    /\ disconnected_player_name \in DOMAIN active_usernames
    /\ IF /\ disconnected_player_name \in DOMAIN disconnected_players
          /\ disconnected_players[disconnected_player_name].game_id = game_id
       THEN LET new_conn == active_usernames[disconnected_player_name]
                first == (disconnected_player_name = player1_username)
                other_conn == IF first THEN player2_adapter_conn ELSE player1_adapter_conn
            IN /\ resumed_game_state' = disconnected_players[disconnected_player_name].game_state
               /\ disconnected_players' = MapDel(disconnected_players, disconnected_player_name)
               /\ sent' = sent \cup {<<new_conn, "RECONNECT", "">>}
               /\ player1_adapter_conn' = (IF first THEN new_conn ELSE player1_adapter_conn)
               /\ player2_adapter_conn' = (IF first THEN player2_adapter_conn ELSE new_conn)
               /\ current_game' = GameStateOf(current_game, "in_progress")
               /\ spc' = "start"
               /\ disconnected_player_name' = None
               /\ UNCHANGED << active_usernames, closed, game_in_progress, sessionThreads >>
       ELSE SessionForfeit
    /\ UNCHANGED << waiting_players, current_game_spectators, nextConn, now, stop_events,
                    lobbyThreads, specThreads, conn_username, apc, aconn, apkt, ausername,
                    game_id, rematch, wait_start_time, engineVars, boardVars, codecVars, chatVars >>

\* The wait loop ends because RECONNECT_TIMEOUT has passed (line 717).
SessionExpire ==
    /\ spc = "wait"
    /\ now - wait_start_time >= RECONNECT_TIMEOUT
    /\ SessionForfeit
    /\ UNCHANGED << waiting_players, current_game_spectators, nextConn, now, stop_events,
                    lobbyThreads, specThreads, conn_username, apc, aconn, apkt, ausername,
                    game_id, rematch, wait_start_time, engineVars, boardVars, codecVars, chatVars >>

\* notify_spectators / send_event_to_spectators, called by the running
\* match, cannot write to a spectator: it is dropped and closed
\* (lines 523-572).
SpectatorDropped(conn) ==
    /\ spc \in {"engine", "wait"}
    /\ conn \in SeqElems(current_game_spectators)
    /\ current_game_spectators' = SeqWithout(current_game_spectators, {conn})
    /\ closed' = closed \cup {conn}
    /\ UNCHANGED << active_usernames, disconnected_players, waiting_players, game_in_progress,
                    current_game, nextConn, sent, now, threadVars, sessionVars, engineVars,
                    boardVars, codecVars, chatVars >>

\* A second of time.time().  Time is read only against a disconnect_time or
\* the start of a wait.
Tick ==
    /\ now < MaxTime
    /\ DOMAIN disconnected_players # {} \/ spc = "wait"
    /\ now' = now + 1
    /\ UNCHANGED << globalVars, nextConn, closed, sent, threadVars, sessionVars, engineVars,
                    boardVars, codecVars, chatVars >>

(***************************************************************************)
(* Specifications.                                                         *)
(***************************************************************************)
TbInit == BoardIdle /\ CodecIdle /\ NoPlayers /\ EngineIdle /\ ServerIdle

TbNext ==
    \/ \E o \in 0 .. 1, row \in 0 .. (BOARD_SIZE - 1), col \in 0 .. (BOARD_SIZE - 1) :
          TbPlace(o, row, col)
    \/ TbStartFiring
    \/ \E row \in -1 .. BOARD_SIZE, col \in -1 .. BOARD_SIZE : TbFire(row, col)
    \/ TbRestore

SpecBoard == TbInit /\ [][TbNext]_vars

ParseInit ==
    /\ BoardIdle /\ NoPlayers /\ EngineIdle /\ ServerIdle /\ ProtocolIdle
    /\ cinput \in CoordInputs
    /\ cpc = "input"
    /\ coord = ParseFail

SpecParse == ParseInit /\ [][ParseCall]_vars

ProtocolInit == BoardIdle /\ CodecIdle /\ NoPlayers /\ EngineIdle /\ ServerIdle

ProtocolNext ==
    \/ \E packet_type \in PacketTypes, payload \in Payloads, iv \in IVs :
          ProtoCreate(packet_type, payload, iv)
    \/ \E at \in 1 .. MaxPacketLen, mask \in Masks : ProtoCorrupt(at, mask)
    \/ \E k \in 0 .. MaxPacketLen : ProtoTruncate(k)
    \/ \E wire \in Wires : ProtoReceive(wire)
    \/ \E packet_type \in PacketTypes \cup {256}, payload \in Payloads, iv \in IVs,
          sendall \in [1 .. MAX_RETRIES -> BOOLEAN] :
          ProtoSend(packet_type, payload, iv, sendall)

SpecProtocol == ProtocolInit /\ [][ProtocolNext]_vars

\* SpecSequence: create_packet called again and again by a process that has
\* already sent 2^32 - 3 packets.
SequenceInit ==
    /\ BoardIdle /\ NoPlayers /\ EngineIdle /\ ServerIdle
    /\ cinput = << >> /\ cpc = "idle" /\ coord = ParseFail
    /\ next_sequence_number = [hi |-> 255, lo |-> 16777213]
    /\ packet_bytes = << >>
    /\ created = [packet_type |-> 0, payload |-> StrPayload(<< >>),
                  iv |-> [i \in 1 .. IV_SIZE |-> 0], seq_num |-> U32(0), at |-> 0]
    /\ ppc = "idle"
    /\ recv_log = NoReceive
    /\ send_log = NoSend

SequenceNext ==
    \E packet_type \in PacketTypes, payload \in Payloads, iv \in IVs :
       ProtoCreate(packet_type, payload, iv)

SpecSequence == SequenceInit /\ [][SequenceNext]_vars

\* SpecLocks: the four kinds of thread of the server going through their
\* locked sections in any order and at any speed.
LockInit == BoardIdle /\ CodecIdle /\ NoPlayers /\ EngineIdle /\ ServerIdle

LockNext ==
    \/ \E task \in LockTasks,
          section \in run_game_server_sections \cup handle_waiting_player_sections
                        \cup handle_spectator_sections \cup handle_game_session_sections :
          LockEnter(task, section)
    \/ \E task \in LockTasks : LockAcquire(task)
    \/ \E task \in LockTasks : LockRelease(task)

SpecLocks == LockInit /\ [][LockNext]_vars

\* A pass of the turn loop on an input the player to move types.
EngineTurn(guess, io) ==
    /\ guess \in MovesOf(current_player_name_for_turn)
    /\ TurnStep(guess, io)

EngineInit ==
    /\ BoardIdle /\ CodecIdle /\ ServerIdle /\ EngineIdle
    /\ player1_username = "alice"
    /\ player2_username = "bob"

EngineNext ==
    \/ EngineCall
    \/ \E io \in {"ok", "fail"} : EngineStart(io)
    \/ \E io \in {"ok", "fail_p1", "fail_p2"} : EngineWelcome(io)
    \/ \E choice \in ChoiceInputs, io \in SetupIO : PlaceChoose(choice, io)
    \/ \E combined_input \in PlaceInputs, io \in SetupIO : PlaceManual(combined_input, io)
    \/ \E guess \in MoveInputs, io \in TurnIO : EngineTurn(guess, io)
    \/ EngineResume

SpecEngine == EngineInit /\ [][EngineNext]_vars

ServerInit == BoardIdle /\ CodecIdle /\ NoPlayers /\ EngineIdle /\ ServerIdle

FirstPackets == {"invalid", "not_username", "empty", "username"}

ServerNext ==
    \/ \E pkt \in FirstPackets, name \in Usernames : AdmitAccept(pkt, name)
    \/ AdmitHandOff
    \/ \E gone \in SUBSET (1 .. MaxConns) : AdmitPoll(gone)
    \/ \E conn \in 1 .. MaxConns : LobbyStopped(conn)
    \/ \E conn \in 1 .. MaxConns : LobbyLeave(conn)
    \/ \E conn \in 1 .. MaxConns, io \in {"ok", "fail"} : SpectatorStart(conn, io)
    \/ \E conn \in 1 .. MaxConns : SpectatorLeave(conn)
    \/ \E task \in 1 .. MaxConns, to \in 1 .. MaxConns : ChatSend(task, to)
    \/ \E task \in 1 .. MaxConns : ChatSent(task)
    \/ SessionNotify
    \/ \E gone \in SUBSET (1 .. MaxConns) : SessionCall(gone)

Spec == ServerInit /\ [][ServerNext]_vars

(***************************************************************************)
(* SpecMatch: the server with the call at server.py:644-652 taken as       *)
(* binding its arguments in the order the engine declares them, from the   *)
(* moment run_game_server has paired alice and bob (the state AdmitHandOff *)
(* leaves).  Players place their ships by hand and type the inputs below;  *)
(* MatchConns connections are accepted in all.                             *)
(***************************************************************************)
SessionCallAsDeclared(gone) == SessionCallWith(TRUE, gone)

MatchChoices == { <<"M">> }
MatchPlaces  == { <<"A","1"," ","H">>, <<"B","1"," ","H">> }
MatchMovesOf(name) == IF name = "bob" THEN { <<"A","1">> }
                      ELSE { <<"A","1">>, <<"a","2">>, <<"B","1">> }
MatchConns   == 3

MatchChoose(choice, io) == choice \in MatchChoices /\ PlaceChoose(choice, io)
MatchPlace(combined_input, io) == combined_input \in MatchPlaces /\ PlaceManual(combined_input, io)
MatchTurn(guess, io) ==
    /\ guess \in MatchMovesOf(current_player_name_for_turn)
    /\ TurnStep(guess, io)
MatchAccept(name) == nextConn <= MatchConns /\ AdmitAccept("username", name)

MatchInit ==
    /\ BoardIdle /\ CodecIdle /\ EngineIdle
    /\ player1_username = "alice"
    /\ player2_username = "bob"
    /\ active_usernames = MapPut(MapPut(EmptyMap, "alice", 1), "bob", 2)
    /\ disconnected_players = EmptyMap
    /\ waiting_players = << >>
    /\ current_game_spectators = << >>
    /\ game_in_progress = TRUE
    /\ current_game = RealGame("alice", "bob", << "alice", "bob", 0 >>)
    /\ nextConn = 3
    /\ closed = {}
    /\ sent = {}
    /\ now = 0
    /\ stop_events = {1}
    /\ chat_writing = EmptyMap
    /\ NoLocksHeld
    /\ lobbyThreads \in {MapPut(EmptyMap, 1, "alice"), EmptyMap}
    /\ specThreads = EmptyMap
    /\ sessionThreads = { << "alice", "bob", 0 >> }
    /\ conn_username = MapPut(MapPut(EmptyMap, 1, "alice"), 2, "bob")
    /\ apc = "poll" /\ aconn = 2 /\ apkt = "username" /\ ausername = "bob"
    /\ spc = "start"
    /\ game_id = << "alice", "bob", 0 >>
    /\ player1_adapter_conn = 1
    /\ player2_adapter_conn = 2
    /\ resumed_game_state = NoneState
    /\ rematch = NoRematch
    /\ disconnected_player_name = None
    /\ wait_start_time = 0

MatchNext ==
    \/ \E name \in Usernames : MatchAccept(name)
    \/ AdmitHandOff
    \/ \E gone \in SUBSET (1 .. MaxConns) : AdmitPoll(gone)
    \/ \E conn \in 1 .. MaxConns : LobbyStopped(conn)
    \/ \E conn \in 1 .. MaxConns : LobbyLeave(conn)
    \/ \E conn \in 1 .. MaxConns, io \in {"ok", "fail"} : SpectatorStart(conn, io)
    \/ \E conn \in 1 .. MaxConns : SpectatorLeave(conn)
    \/ \E conn \in 1 .. MaxConns : SpectatorDropped(conn)
    \/ \E conn \in 1 .. MaxConns, ptype \in {"MOVE", "HEARTBEAT"} : SpectatorPacket(conn, ptype)
    \/ \E task \in 1 .. MaxConns, to \in 1 .. MaxConns : ChatSend(task, to)
    \/ \E task \in 1 .. MaxConns : ChatSent(task)
    \/ SessionNotify
    \/ \E gone \in SUBSET (1 .. MaxConns) : SessionCallAsDeclared(gone)
    \/ \E io \in {"ok", "fail"} : EngineStart(io)
    \/ \E io \in {"ok", "fail_p1", "fail_p2"} : EngineWelcome(io)
    \/ \E choice \in ChoiceInputs, io \in SetupIO : MatchChoose(choice, io)
    \/ \E combined_input \in PlaceInputs, io \in SetupIO : MatchPlace(combined_input, io)
    \/ \E guess \in MoveInputs, io \in TurnIO : MatchTurn(guess, io)
    \/ \E a1 \in BOOLEAN, a2 \in BOOLEAN : SessionGameOver(a1, a2)
    \/ SessionMark
    \/ SessionDisconnect
    \/ SessionPoll
    \/ SessionExpire
    \/ Tick

SpecMatch == MatchInit /\ [][MatchNext]_vars

(***************************************************************************)
(* Claims on the Board (SpecBoard).                                        *)
(***************************************************************************)
InBounds(b, row, col) == row \in 0 .. (b.size - 1) /\ col \in 0 .. (b.size - 1)

\* C4: fire_at returns 'invalid' iff the coordinate is out of bounds;
\* otherwise 'already_shot' iff the hidden cell is Hit or Miss, changing
\* nothing; otherwise 'miss' iff the cell was Empty, turning exactly that
\* cell to Miss in both grids; otherwise 'hit', turning exactly that cell to
\* Hit in both grids, removing it from the remaining set of the one ship
\* that contains it, and naming that ship iff its remaining set became empty.
C4_FireAtContract ==
    tbLast.op = "fire" =>
      LET pre  == tbLast.pre
          post == tb
          cell == <<tbLast.row, tbLast.col>>
      IN
      IF ~ InBounds(pre, tbLast.row, tbLast.col)
      THEN tbLast.result = "invalid" /\ tbLast.sunk = None /\ post = pre
      ELSE IF pre.hidden_grid[cell] \in {"X", "o"}
      THEN tbLast.result = "already_shot" /\ tbLast.sunk = None /\ post = pre
      ELSE IF pre.hidden_grid[cell] = "."
      THEN /\ tbLast.result = "miss" /\ tbLast.sunk = None
           /\ post = [pre EXCEPT !.hidden_grid[cell] = "o", !.display_grid[cell] = "o"]
      ELSE /\ tbLast.result = "hit"
           /\ post.size = pre.size
           /\ post.hidden_grid  = [pre.hidden_grid  EXCEPT ![cell] = "X"]
           /\ post.display_grid = [pre.display_grid EXCEPT ![cell] = "X"]
           /\ Len(post.placed_ships) = Len(pre.placed_ships)
           /\ Cardinality({ i \in 1 .. Len(pre.placed_ships) :
                              cell \in pre.placed_ships[i].positions }) = 1
           /\ \A i \in 1 .. Len(pre.placed_ships) :
                 /\ post.placed_ships[i].name = pre.placed_ships[i].name
                 /\ post.placed_ships[i].positions = pre.placed_ships[i].positions \ {cell}
                 /\ cell \in pre.placed_ships[i].positions =>
                       tbLast.sunk = IF post.placed_ships[i].positions = {}
                                     THEN pre.placed_ships[i].name ELSE None

\* A shot that sank one ship while another is still afloat.
C4_Witness ==
    /\ tbLast.op = "fire" /\ tbLast.result = "hit" /\ tbLast.sunk # None
    /\ ~ all_ships_sunk(tb)

\* C5: all_ships_sunk() is true iff every cell that was Ship in the initial
\* placement is now Hit.
C5_AllSunkIffAllShipCellsHit ==
    all_ships_sunk(tb) <=> (\A cell \in tbInitCells : tb.hidden_grid[cell] = "X")

\* The full catalogue placed and every ship cell hit.
C5_Witness ==
    /\ Len(tb.placed_ships) = Len(SHIPS)
    /\ tbLast.op = "fire" /\ tbLast.result = "hit"
    /\ all_ships_sunk(tb)

\* C10: deserialize(serialize(b)) has the same size, grids and per-ship
\* remaining sets in the same ship order as b, hence the same fire_at outcome
\* at every coordinate and the same all_ships_sunk() result.
C10_SnapshotRoundTrip ==
    \A data \in Serializations(tb) :
       LET d == deserialize(data) IN
       /\ d.size = tb.size
       /\ d.hidden_grid = tb.hidden_grid
       /\ d.display_grid = tb.display_grid
       /\ Len(d.placed_ships) = Len(tb.placed_ships)
       /\ \A i \in 1 .. Len(tb.placed_ships) :
             /\ d.placed_ships[i].name = tb.placed_ships[i].name
             /\ d.placed_ships[i].positions = tb.placed_ships[i].positions
       /\ \A row \in -1 .. tb.size, col \in -1 .. tb.size :
             /\ fire_at(d, row, col).result = fire_at(tb, row, col).result
             /\ fire_at(d, row, col).sunk = fire_at(tb, row, col).sunk
       /\ all_ships_sunk(d) = all_ships_sunk(tb)

\* A board restored in mid-game: a ship hit but not sunk, a miss on the grid.
C10_Witness ==
    /\ tbLast.op = "restore"
    /\ \E i \in 1 .. Len(tb.placed_ships) :
          /\ tb.placed_ships[i].positions # {}
          /\ \E cell \in Cells(tb.size) :
                tb.hidden_grid[cell] = "X" /\ cell \notin tb.placed_ships[i].positions
    /\ \E cell \in Cells(tb.size) : tb.hidden_grid[cell] = "o"

(***************************************************************************)
(* Claims on run_two_player_game (SpecEngine).                             *)
(***************************************************************************)
\* The player whose move the match waits for: the turn loop's current player
\* or, once the engine has left by PlayerDisconnectedError, the name saved
\* for resumption.
PlayerToMove ==
    IF epc = "turn" THEN current_player_name_for_turn
    ELSE IF epc = "raised" /\ eraised.game_state # NoneState
    THEN eraised.game_state.next_turn_username
    ELSE None

BoardOfOpponent(name) == IF name = player1_username THEN player2_board ELSE player1_board
BoardOfOpponentAfter(name) == IF name = player1_username THEN player2_board' ELSE player1_board'
ShotResolved == player1_board' # player1_board \/ player2_board' # player2_board
RejectedKinds == {"parse_error", "already_shot", "invalid"}

\* C1: a pass of the turn loop whose input does not parse, or whose shot
\* fire_at answers with already_shot or invalid, leaves the player to move
\* and both boards (grids and every ship's remaining cells) as they were.
C1_RejectedMoveChangesNothing ==
    [][ (epc = "turn" /\ elast'.kind \in RejectedKinds)
        => /\ player1_board' = player1_board
           /\ player2_board' = player2_board
           /\ elast'.by = current_player_name_for_turn
           /\ PlayerToMove' = current_player_name_for_turn ]_vars

\* A rejected repeat shot was answered and the same player is prompted again.
C1_Witness ==
    /\ epc = "turn"
    /\ elast.kind = "already_shot"
    /\ current_player_name_for_turn = elast.by
    /\ \E c \in Cells(BOARD_SIZE) : BoardOfOpponent(elast.by).display_grid[c] # "."

\* C2: after a shot resolves as a miss or as a hit that leaves the opponent
\* with ships afloat, the player to move is the other player.
C2_TurnPassesAfterShot ==
    [][ (epc = "turn" /\ ShotResolved /\ elast'.kind \in {"hit", "miss"}
         /\ ~ all_ships_sunk(BoardOfOpponentAfter(elast'.by)))
        => PlayerToMove' = OtherName(elast'.by) ]_vars

\* C3: a hit that leaves the opponent's board all sunk completes the match:
\* the engine returns to its caller with the firing player the winner.
C3_FinalHitCompletesMatch ==
    [][ (epc = "turn" /\ ShotResolved /\ elast'.kind = "hit"
         /\ all_ships_sunk(BoardOfOpponentAfter(elast'.by)))
        => epc' = "returned" ]_vars

\* C6: a call that resumes a match enters the turn loop with both boards
\* equal to the snapshots and the saved next_turn_username to move.
C6_ResumeRestoresMatch ==
    [][ (epc = "start" /\ IsResumedArgs(eargs) /\ epc' # "start")
        => /\ epc' = "turn"
           /\ player1_board' = deserialize(eargs.p1)
           /\ player2_board' = deserialize(eargs.p2)
           /\ current_player_name_for_turn' = eargs.next ]_vars

(***************************************************************************)
(* Claims on handle_game_session (SpecMatch).                              *)
(***************************************************************************)
\* The connection of the player who stayed when disconnected_player_name left.
OtherPlayerConn ==
    IF disconnected_player_name = player1_username
    THEN player2_adapter_conn ELSE player1_adapter_conn

ResumeEligible(username) ==
    /\ username \in DOMAIN disconnected_players
    /\ now - disconnected_players[username].disconnect_time <= RECONNECT_TIMEOUT

\* The connections that identified with the username and are not closed.
LiveConnections(username) ==
    { c \in DOMAIN conn_username : conn_username[c] = username /\ c \notin closed }

\* C9: a connection that identifies with a username that is in
\* active_usernames and is not resume-eligible is sent the "Username already
\* in use" error and closed, and active_usernames, disconnected_players, the
\* waiting queue and the spectators stay as they are; no username has two
\* live connections.
C9_InUseRejected ==
    /\ [][ ( /\ apc = "accept"
             /\ nextConn' = nextConn + 1
             /\ apkt' = "username"
             /\ ausername' \in DOMAIN active_usernames
             /\ ~ ResumeEligible(ausername') )
           => /\ <<nextConn, "ERROR", InUseMessage>> \in sent'
              /\ nextConn \in closed'
              /\ apc' = "accept"
              /\ active_usernames' = active_usernames
              /\ disconnected_players' = disconnected_players
              /\ waiting_players' = waiting_players
              /\ current_game_spectators' = current_game_spectators ]_vars
    /\ [] (\A username \in Usernames : Cardinality(LiveConnections(username)) <= 1)

\* A second connection under a name was rejected while the name's first
\* connection is still bound in active_usernames and open.
C9_Witness ==
    \E c \in closed :
       /\ <<c, "ERROR", InUseMessage>> \in sent
       /\ c \in DOMAIN conn_username
       /\ conn_username[c] \in DOMAIN active_usernames
       /\ active_usernames[conn_username[c]] # c
       /\ active_usernames[conn_username[c]] \notin closed

(***************************************************************************)
(* Claims on what spectators are shown (SpecEngine).                       *)
(***************************************************************************)
\* The cells of a message of send_board_to_spectators.
ViewCells(view) ==
    { view.p1_rows[r][c] : r \in DOMAIN view.p1_rows, c \in 1 .. Len(view.p1_rows) }
    \cup { view.p2_rows[r][c] : r \in DOMAIN view.p2_rows, c \in 1 .. Len(view.p2_rows) }

\* C11: the board view the engine broadcasts to spectators from the boards
\* of any reachable state of a match (at the top of a pass of the turn loop
\* and after a hit or a miss) shows both players' grids and has no cell 'S'.
C11_SpectatorViewMasked ==
    LET view == send_board_to_spectators(player1_board, player2_board) IN
    /\ Len(view.p1_rows) = BOARD_SIZE /\ Len(view.p2_rows) = BOARD_SIZE
    /\ "S" \notin ViewCells(view)
    /\ \A cell \in Cells(BOARD_SIZE) :
          /\ view.p1_rows[cell[1] + 1][cell[2] + 1] = player1_board.display_grid[cell]
          /\ view.p2_rows[cell[1] + 1][cell[2] + 1] = player2_board.display_grid[cell]

\* A shot was just resolved in the turn loop while both players still have
\* ship cells that were not hit.
C11_Witness ==
    /\ epc = "turn"
    /\ elast.kind \in {"hit", "miss"}
    /\ \E cell \in Cells(BOARD_SIZE) : player1_board.hidden_grid[cell] = "S"
    /\ \E cell \in Cells(BOARD_SIZE) : player2_board.hidden_grid[cell] = "S"
    /\ "X" \in ViewCells(send_board_to_spectators(player1_board, player2_board))

(***************************************************************************)
(* More claims on the Board (SpecBoard).                                   *)
(***************************************************************************)
\* C12: on every reachable board, after placements, shots and restores, each
\* cell of display_grid is 'X' iff the hidden cell is 'X', 'o' iff the hidden
\* cell is 'o', and '.' otherwise; display_grid never holds 'S'.
C12_DisplayMirrorsShots ==
    \A cell \in Cells(tb.size) :
       /\ (tb.display_grid[cell] = "X") <=> (tb.hidden_grid[cell] = "X")
       /\ (tb.display_grid[cell] = "o") <=> (tb.hidden_grid[cell] = "o")
       /\ tb.hidden_grid[cell] \notin {"X", "o"} => tb.display_grid[cell] = "."
       /\ tb.display_grid[cell] # "S"

\* A restored board with a hit, a miss and a ship cell not yet hit.
C12_Witness ==
    /\ tbLast.op = "restore"
    /\ \E cell \in Cells(tb.size) : tb.hidden_grid[cell] = "X"
    /\ \E cell \in Cells(tb.size) : tb.hidden_grid[cell] = "o"
    /\ \E cell \in Cells(tb.size) : tb.hidden_grid[cell] = "S"

(***************************************************************************)
(* Claims on the setup phase (SpecEngine).                                 *)
(***************************************************************************)
PlacerBoardAfter == IF eplacer = 1 THEN player1_board' ELSE player2_board'

\* C13: a player who sends nothing in answer to the placement-mode prompt
\* gets the full catalogue placed at random and setup goes on; the engine
\* does not leave by PlayerDisconnectedError.
C13_SilentChoiceDefaultsToRandom ==
    [][ (epc = "place" /\ emode = "choose" /\ elast'.kind = "silent")
        => /\ epc' # "raised"
           /\ Len(PlacerBoardAfter.placed_ships) = Len(SHIPS) ]_vars

\* C14: whenever the engine is in the turn loop, in a fresh match or one
\* resumed from a snapshot, both boards hold the full catalogue of ships.
C14_TurnPhaseHasFullCatalogue ==
    epc = "turn" =>
       /\ Len(player1_board.placed_ships) = Len(SHIPS)
       /\ Len(player2_board.placed_ships) = Len(SHIPS)
       /\ \A i \in 1 .. Len(SHIPS) :
             /\ player1_board.placed_ships[i].name = SHIPS[i].name
             /\ player2_board.placed_ships[i].name = SHIPS[i].name

(***************************************************************************)
(* Claims on the rematch negotiation (SpecMatch).                          *)
(***************************************************************************)
\* After the step, the player has left: the name is no longer bound to the
\* connection in active_usernames and the connection is closed.
PlayerLeft(username, conn) ==
    /\ ~ (username \in DOMAIN active_usernames' /\ active_usernames'[username] = conn)
    /\ conn \in closed'

\* After the step, the player is still reserved in active_usernames on the
\* same open connection and has an entry in the waiting queue.
PlayerRequeued(username, conn) ==
    /\ username \in DOMAIN active_usernames'
    /\ active_usernames'[username] = conn
    /\ conn \notin closed'
    /\ [conn |-> conn, username |-> username] \in SeqElems(waiting_players')

RegisteredAfter ==
    { active_usernames'[u] : u \in DOMAIN active_usernames' }
      \cup { w.conn : w \in SeqElems(waiting_players') }
      \cup SeqElems(current_game_spectators')

\* C16: a connection whose first packet is not a valid, non-empty USERNAME
\* packet (another type, an empty payload, bytes that do not verify, or
\* nothing within the deadline) is sent an ERROR packet and closed, and is
\* registered nowhere.
C16_BadFirstPacketRejected ==
    [][ (apc = "accept" /\ nextConn' = nextConn + 1 /\ apkt' # "username")
        => /\ \E m \in sent' : m[1] = aconn' /\ m[2] = "ERROR"
           /\ aconn' \in closed'
           /\ aconn' \notin RegisteredAfter ]_vars

(***************************************************************************)
(* Claims on the packet codec (SpecProtocol).                              *)
(***************************************************************************)
\* C17: the bytes create_packet returns pass verify_packet, carry the magic
\* number, the packet type asked for and a data length of IV_SIZE plus the
\* length of the ciphertext, and the ciphertext decrypted with the IV found
\* in the packet is the plaintext that was given, the empty one included.
C17_CreateVerifyRoundTrip ==
    ppc = "created" =>
        LET v == verify_packet(packet_bytes) IN
        /\ v.is_valid
        /\ ~ v.header.none /\ ~ v.payload.none
        /\ v.header.magic = U32(MAGIC_NUMBER)
        /\ v.header.ptype = created.packet_type
        /\ LET iv_plus_encrypted == v.payload.bytes
               iv == SubSeq(iv_plus_encrypted, 1, IV_SIZE)
               ciphertext == SubSeq(iv_plus_encrypted, IV_SIZE + 1, Len(iv_plus_encrypted))
           IN /\ v.header.dlen = U32(IV_SIZE + Len(ciphertext))
              /\ Len(iv_plus_encrypted) = IV_SIZE + Len(payload_bytes_of(created.payload))
              /\ iv = created.iv
              /\ decrypt_payload(ciphertext, iv) = payload_bytes_of(created.payload)

C17_Witness ==
    /\ ppc = "created"
    /\ created.payload = StrPayload(<< >>)
    /\ created.packet_type = 11
    /\ Len(packet_bytes) = HEADER_SIZE + IV_SIZE

\* C18: a packet from create_packet in which one byte of the thirteen
\* checksummed header bytes, of the IV or of the ciphertext has been changed
\* is reported invalid by verify_packet, which returns no payload.
C18_SingleByteChangeRejected ==
    (ppc = "corrupted" /\ (created.at <= 13 \/ created.at > HEADER_SIZE)) =>
        LET v == verify_packet(packet_bytes) IN
        ~ v.is_valid /\ v.payload.none

C18_Witness ==
    /\ ppc = "corrupted"
    /\ created.at = Len(packet_bytes)
    /\ Len(packet_bytes) > HEADER_SIZE + IV_SIZE
    /\ verify_packet(packet_bytes).header.magic = U32(MAGIC_NUMBER)

(***************************************************************************)
(* Claims on parse_coordinate (SpecParse).  The grid is BOARD_SIZE wide,   *)
(* so the row letters are the first BOARD_SIZE letters and the columns are *)
(* 1 .. BOARD_SIZE.                                                        *)
(***************************************************************************)
\* The decimal numeral of n >= 0, without leading zeros.
RECURSIVE Decimal(_)
Decimal(n) ==
    IF n < 10 THEN << Digits[n + 1] >>
    ELSE Decimal(n \div 10) \o << Digits[(n % 10) + 1] >>

Repeat(ch, n) == [i \in 1 .. n |-> ch]

\* The strings that read as row index row and column number col once blanks
\* around them are dropped and the letter is taken in upper case: the row
\* letter in either case, then the column in decimal, possibly with leading
\* zeros.
CoordinateForms(row, col) ==
    { Repeat(" ", lead) \o << letter >> \o Repeat("0", zeros) \o Decimal(col)
        \o Repeat(" ", trail) :
      lead \in 0 .. MaxCoordLen, zeros \in 0 .. MaxCoordLen, trail \in 0 .. MaxCoordLen,
      letter \in {UpperLetters[row + 1], LowerLetters[row + 1]} }

\* C19 as stated: a row letter followed by the decimal column gives
\* (letter index, column - 1); every other string fails; no result lies
\* outside the grid.
C19_ParseCoordinateExact ==
    cpc = "returned" =>
        LET hits == { rc \in (0 .. (BOARD_SIZE - 1)) \X (1 .. BOARD_SIZE) :
                        cinput = << UpperLetters[rc[1] + 1] >> \o Decimal(rc[2]) }
        IN /\ IF hits = {} THEN ~ coord.ok
              ELSE \A rc \in hits : coord = [ok |-> TRUE, row |-> rc[1], col |-> rc[2] - 1]
           /\ coord.ok => /\ coord.row \in 0 .. (BOARD_SIZE - 1)
                       /\ coord.col \in 0 .. (BOARD_SIZE - 1)

\* C19, amended: the string is read after blanks around it are dropped and
\* its letter is upper-cased, and the column may carry leading zeros; such a
\* string gives (letter index, column - 1), every other string fails, and no
\* result lies outside the grid.
C19_ParseCoordinateNormalised ==
    cpc = "returned" =>
        LET hits == { rc \in (0 .. (BOARD_SIZE - 1)) \X (1 .. BOARD_SIZE) :
                        cinput \in CoordinateForms(rc[1], rc[2]) }
        IN /\ IF hits = {} THEN ~ coord.ok
              ELSE \A rc \in hits : coord = [ok |-> TRUE, row |-> rc[1], col |-> rc[2] - 1]
           /\ coord.ok => /\ coord.row \in 0 .. (BOARD_SIZE - 1)
                       /\ coord.col \in 0 .. (BOARD_SIZE - 1)

C19_Witness ==
    /\ cpc = "returned"
    /\ cinput = << "b", "0", "2" >>
    /\ coord = [ok |-> TRUE, row |-> 1, col |-> 1]

(***************************************************************************)
(* Claims on the errors that leave the engine (SpecEngine).                *)
(***************************************************************************)
\* C20: a PlayerDisconnectedError that leaves run_two_player_game names one
\* of the two players and carries a game_state with the snapshots of both
\* boards and a next_turn_username that is one of the two players.
C20_DisconnectCarriesState ==
    epc = "raised" =>
        /\ eraised.player_name \in {player1_username, player2_username}
        /\ eraised.game_state # NoneState
        /\ eraised.game_state.player1_board_state \in Serializations(player1_board)
        /\ eraised.game_state.player2_board_state \in Serializations(player2_board)
        /\ eraised.game_state.next_turn_username \in {player1_username, player2_username}

(***************************************************************************)
(* Claims on the end of a session (Spec, SpecMatch).                       *)
(***************************************************************************)
\* C21: whenever the thread of a game session ends, it leaves
\* game_in_progress false, current_game the placeholder again, and no entry
\* of disconnected_players carrying the session's game_id.
C21_SessionEndResetsSlot ==
    [][ (game_id \in sessionThreads /\ game_id \notin sessionThreads')
        => /\ ~ game_in_progress'
           /\ current_game' = DummyGame
           /\ \A u \in DOMAIN disconnected_players' :
                  disconnected_players'[u].game_id # game_id ]_vars

SessionReads(conn) ==
    /\ spc = "engine"
    /\ \/ /\ epc = "place"
          /\ conn = (IF eplacer = 1 THEN player1_adapter_conn ELSE player2_adapter_conn)
       \/ /\ epc = "turn"
          /\ conn = (IF current_player_name_for_turn = player1_username
                     THEN player1_adapter_conn ELSE player2_adapter_conn)

\* The tasks that are reading from conn.
Readers(conn) ==
    (IF conn \in DOMAIN lobbyThreads THEN {"waiting"} ELSE {})
    \cup (IF conn \in DOMAIN specThreads /\ specThreads[conn] = "loop"
          THEN {"spectator"} ELSE {})
    \cup (IF SessionReads(conn) THEN {"session"} ELSE {})

C25_OneWriterPerConnection ==
    /\ [] (\A t1 \in DOMAIN chat_writing, t2 \in DOMAIN chat_writing :
              (t1 # t2 /\ chat_writing[t1] \in {player1_adapter_conn, player2_adapter_conn})
              => chat_writing[t1] # chat_writing[t2])
    /\ [][ \A pkt \in sent' \ sent :
              pkt[1] \in {player1_adapter_conn', player2_adapter_conn'}
              => \A task \in DOMAIN chat_writing : chat_writing[task] # pkt[1] ]_vars

\* C26: no task sends or receives on the network while it holds a lock of
\* the presence maps or of the spectator list: the step the session takes
\* while it holds spectators_lock inside notify_spectators writes to no
\* spectator.
C26_NoNetworkUnderLock ==
    [][ (spc = "notify" /\ spc' # "notify") => current_game_spectators = << >> ]_vars

(***************************************************************************)
(* Claims on the lobby and the spectators (Spec).                          *)
(***************************************************************************)
\* C27: when the handler of a waiting player who was not summoned to a match,
\* or the handler of a spectator, ends, the connection is closed and
\* active_usernames binds no username to it any more.
C27_HandlerEndReleasesName ==
    [][ \A conn \in 1 .. MaxConns :
          ( \/ conn \in DOMAIN specThreads \ DOMAIN specThreads'
            \/ conn \in (DOMAIN lobbyThreads \ DOMAIN lobbyThreads') \ stop_events' )
          => /\ conn \in closed'
             /\ \A u \in DOMAIN active_usernames' : active_usernames'[u] # conn ]_vars

\* C28: a player taken from the head of waiting_players to start a match is
\* still waiting at that moment: the waiting handler is alive, the connection
\* is open, and active_usernames binds the username to that connection.
C28_PairedPlayerIsWaiting ==
    [][ (waiting_players # << >> /\ waiting_players' = Tail(waiting_players))
        => LET first == Head(waiting_players)
           IN /\ first.conn \in DOMAIN lobbyThreads
              /\ first.conn \notin closed
              /\ first.username \in DOMAIN active_usernames
              /\ active_usernames[first.username] = first.conn ]_vars

(***************************************************************************)
(* Claims on the turn order and the end of a match (SpecEngine).           *)
(***************************************************************************)
\* C29: within one match, a shot that resolves as a hit or a miss is never
\* fired by the player who fired the previous resolved shot, also when the
\* match was interrupted and resumed between the two.
C29_ShotsAlternate ==
    [][ (epc = "turn" /\ ShotResolved /\ elast'.kind \in {"hit", "miss"})
        => elast'.by # elast.shot_by ]_vars

\* C30: whenever the engine is in the turn loop, waiting for a move, in a
\* fresh match or a resumed one, neither player's board is all sunk.
C30_NoMoveAwaitedOnFinishedMatch ==
    epc = "turn" => /\ ~ all_ships_sunk(player1_board)
                    /\ ~ all_ships_sunk(player2_board)

(***************************************************************************)
(* Claims on the classification of usernames (SpecMatch).                  *)
(***************************************************************************)
\* C31: a connection that identifies with a username is treated as a
\* reconnection iff the name is in disconnected_players with
\* now - disconnect_time <= RECONNECT_TIMEOUT, also when the name is in
\* active_usernames too; otherwise it is rejected as in use iff the name is
\* in active_usernames; otherwise it is available and is bound to the new
\* connection in active_usernames; an expired record of the name in
\* disconnected_players is dropped by the check.
C31_UsernameClassified ==
    [][ \A u \in Usernames :
          ( /\ apc = "accept"
            /\ nextConn' = nextConn + 1
            /\ apkt' = "username"
            /\ ausername' = u )
          => /\ ResumeEligible(u)
                  => /\ apc' = "accept"
                     /\ <<nextConn, "ERROR", InUseMessage>> \notin sent'
                     /\ nextConn \notin closed'
                     /\ u \in DOMAIN disconnected_players'
             /\ (~ ResumeEligible(u) /\ u \in DOMAIN active_usernames)
                  => /\ apc' = "accept"
                     /\ <<nextConn, "ERROR", InUseMessage>> \in sent'
                     /\ nextConn \in closed'
                     /\ active_usernames' = active_usernames
             /\ (~ ResumeEligible(u) /\ u \notin DOMAIN active_usernames)
                  => /\ apc' = "handoff"
                     /\ active_usernames' = MapPut(active_usernames, u, nextConn)
                     /\ nextConn \notin closed'
             /\ ~ ResumeEligible(u) => u \notin DOMAIN disconnected_players' ]_vars

\* A name that was in both maps was taken as a reconnection: its old
\* connection was told so and closed, and the name is bound to the new one.
C31_Witness ==
    \E u \in DOMAIN active_usernames, old \in closed :
       /\ <<old, "ERROR", "Another client reconnected with your username.">> \in sent
       /\ active_usernames[u] # old
       /\ active_usernames[u] \in DOMAIN conn_username
       /\ conn_username[active_usernames[u]] = u
       /\ old \in DOMAIN conn_username
       /\ conn_username[old] = u

(***************************************************************************)
(* Claims on pairing (Spec).                                               *)
(***************************************************************************)
\* C32: when run_game_server hands off a registered player while no match
\* is running, and the waiting queue is not empty, the head of the queue is
\* removed from it and the two start a game session whose game_id is that
\* of no session that exists; when the queue is empty the player is
\* appended to it and no session starts.
C32_PairedWithHeadOfQueue ==
    [][ (apc = "handoff" /\ apc' # "handoff" /\ ~ game_in_progress)
        => IF waiting_players # << >>
           THEN /\ waiting_players' = Tail(waiting_players)
                /\ game_id' \notin sessionThreads
                /\ sessionThreads' = sessionThreads \cup {game_id'}
                /\ spc' = "start"
                /\ player1_username' = Head(waiting_players).username
                /\ player1_adapter_conn' = Head(waiting_players).conn
                /\ player2_username' = ausername
                /\ player2_adapter_conn' = aconn
                /\ game_in_progress'
                /\ current_game' = RealGame(Head(waiting_players).username, ausername, game_id')
           ELSE /\ waiting_players' = << [conn |-> aconn, username |-> ausername] >>
                /\ sessionThreads' = sessionThreads
                /\ ~ game_in_progress' ]_vars

\* The second registered player has just been paired with the first, who
\* has left the queue.
C32_Witness ==
    /\ apc = "poll"
    /\ spc = "start"
    /\ game_id \in sessionThreads
    /\ player2_adapter_conn = aconn
    /\ player1_adapter_conn \in stop_events
    /\ player1_adapter_conn # aconn
    /\ waiting_players = << >>

(***************************************************************************)
(* Claims on quitting and on spectators' packets (SpecEngine, Spec).       *)
(***************************************************************************)
\* C33: when the player to move sends quit, in any letter case, as the move,
\* the engine returns (the match is complete and the other player has won),
\* both boards are as they were, and no PlayerDisconnectedError is raised,
\* so that no reconnection window opens for the player who quit.
C33_QuitForfeits ==
    [][ (epc = "turn" /\ elast'.kind = "quit")
        => /\ epc' = "returned"
           /\ eraised' = NoRaise
           /\ player1_board' = player1_board
           /\ player2_board' = player2_board ]_vars

(***************************************************************************)
(* Claims on sequence numbers (SpecSequence).                              *)
(***************************************************************************)
\* C40: each create_packet call uses the counter's value as the packet's
\* sequence number and leaves the counter one higher modulo 2^32: after
\* 2^32 - 1 comes 0, and after every other value its successor.
C40_SequenceModulo2To32 ==
    [][ next_sequence_number' # next_sequence_number
        => /\ created'.seq_num = next_sequence_number
           /\ next_sequence_number' =
                 IF U32Succ(next_sequence_number).hi = 256 THEN U32(0)
                 ELSE U32Succ(next_sequence_number) ]_vars

(***************************************************************************)
(* Claims on receiving and sending packets (SpecProtocol).                 *)
(***************************************************************************)
\* C34: when a packet from a player arrives with one byte changed and
\* receive_packet reports it invalid, ProtocolAdapter.readline raises no
\* PlayerDisconnectedError (so that no reconnection window opens and the
\* match stays as it is) and goes on listening for the player's input.
C34_CorruptPacketDropped ==
    ( /\ ppc = "received"
      /\ recv_log.wire = "arrives"
      /\ created.at # 0
      /\ ~ recv_log.result.is_valid )
    => recv_log.line = "continue"

\* What C38 lists, read off the bytes: fewer bytes than a header and an IV,
\* another magic number, a data length that is not the number of bytes
\* after the header or is below IV_SIZE, another checksum.
PacketIsBad(bytes) ==
    \/ Len(bytes) < HEADER_SIZE + IV_SIZE
    \/ LET h    == decode_header(SubSeq(bytes, 1, HEADER_SIZE))
           rest == SubSeq(bytes, HEADER_SIZE + 1, Len(bytes))
       IN \/ h.magic # U32(MAGIC_NUMBER)
          \/ h.dlen # U32(Len(rest))
          \/ (h.dlen.hi = 0 /\ h.dlen.lo < IV_SIZE)
          \/ h.checksum # calculate_checksum(SubSeq(bytes, 1, 13) \o rest)

\* C38: verify_packet reports a packet invalid and returns no payload when
\* it is too short, its magic number differs, its data length is not the
\* number of bytes that follow or is below the IV size, or its checksum
\* differs; receive_packet does the same for such a packet, and for a closed
\* connection, a timeout and a socket error it returns the invalid result
\* too: no exception reaches its caller.
C38_BadPacketsRejected ==
    /\ (ppc \in {"created", "corrupted", "truncated"} /\ PacketIsBad(packet_bytes))
          => LET v == verify_packet(packet_bytes) IN ~ v.is_valid /\ v.payload.none
    /\ ppc = "received"
          => /\ recv_log.result.raised = None
             /\ recv_log.line \in {"return", "continue", "PlayerDisconnectedError",
                                   "ConnectionResetError"}
             /\ recv_log.line = "ConnectionResetError"
                   => (recv_log.result.is_valid /\ recv_log.result.header.ptype = 10)
             /\ (recv_log.wire # "arrives" \/ PacketIsBad(packet_bytes))
                   => ~ recv_log.result.is_valid /\ recv_log.result.payload.none

\* A packet whose ciphertext was changed has been read whole and rejected
\* on its checksum.
C38_Witness ==
    /\ ppc = "received"
    /\ recv_log.wire = "arrives"
    /\ created.at > HEADER_SIZE + IV_SIZE
    /\ ~ recv_log.result.is_valid
    /\ ~ recv_log.result.header.none
    /\ recv_log.result.header.magic = U32(MAGIC_NUMBER)
    /\ recv_log.result.payload.none

\* C39: send_packet draws one sequence number, writes at most max_retries
\* times, stops writing at the first write that succeeds and returns True
\* then; it returns False exactly when no packet could be built (nothing is
\* written) or all max_retries writes failed.
C39_SendPacketRetries ==
    ppc = "sent" =>
        LET ok == { i \in 1 .. MAX_RETRIES : send_log.sendall[i] } IN
        /\ next_sequence_number = U32(1)
        /\ send_log.writes <= MAX_RETRIES
        /\ send_log.result <=> (send_log.created_ok /\ ok # {})
        /\ send_log.result
              => /\ send_log.writes \in ok
                 /\ \A i \in ok : send_log.writes <= i
        /\ (send_log.created_ok /\ ok = {}) => send_log.writes = MAX_RETRIES
        /\ ~ send_log.created_ok => send_log.writes = 0

\* The first write failed and the second succeeded: two writes, True.
C39_Witness ==
    /\ ppc = "sent"
    /\ send_log.created_ok
    /\ ~ send_log.sendall[1]
    /\ send_log.sendall[2]
    /\ send_log.result
    /\ send_log.writes = 2

(***************************************************************************)
(* Claims on spectators' packets (SpecMatch).                              *)
(***************************************************************************)
\* The spectator handlers that are in their loop.
SpectatorsInLoop == { c \in DOMAIN specThreads : specThreads[c] = "loop" }
\* The packets this step adds to sent.
NewlySent == sent' \ sent

\* C35: a step in which a spectator's packet is handled (the answer to a
\* MOVE, the broadcast of a chat line, the end of the handler on quit)
\* leaves both boards, the player to move and the phase of the match and of
\* its session as they are; the answer to a MOVE is one chat line, written
\* to the connection of a spectator and to no other connection.
C35_SpectatorPacketsChangeNoMatch ==
    [][ /\ ( \/ \E c \in 1 .. MaxConns : <<c, "CHAT", MoveRestriction>> \in NewlySent
             \/ \E c \in SpectatorsInLoop :
                   \/ c \notin DOMAIN specThreads'
                   \/ (c \in DOMAIN chat_writing) # (c \in DOMAIN chat_writing') )
           => UNCHANGED << player1_board, player2_board, current_player_name_for_turn,
                           epc, emode, eplacer, eraised, elast, spc, game_in_progress,
                           current_game, disconnected_players, active_usernames >>
        /\ (\E c \in 1 .. MaxConns : <<c, "CHAT", MoveRestriction>> \in NewlySent)
           => \E c \in SpectatorsInLoop : NewlySent = { <<c, "CHAT", MoveRestriction>> } ]_vars

\* A spectator's MOVE has been answered during the turn phase of a match in
\* which a shot has been applied.
C35_Witness ==
    /\ epc = "turn"
    /\ elast.kind \in {"hit", "miss"}
    /\ \E c \in SpectatorsInLoop : <<c, "CHAT", MoveRestriction>> \in sent

\* A horizontal or vertical contiguous run of the given length that lies
\* wholly inside a grid of the given size.
IsRunInside(cells, length, size) ==
    \E r0 \in 0 .. (size - 1), c0 \in 0 .. (size - 1) :
       \/ /\ c0 + length - 1 <= size - 1
          /\ cells = { <<r0, c>> : c \in c0 .. (c0 + length - 1) }
       \/ /\ r0 + length - 1 <= size - 1
          /\ cells = { <<r, c0>> : r \in r0 .. (r0 + length - 1) }

RECURSIVE LengthsOfFirst(_)
LengthsOfFirst(n) == IF n = 0 THEN 0 ELSE SHIPS[n].size + LengthsOfFirst(n - 1)

\* The cells the last draw of the placement loop would cover, wherever they
\* lie, written from the draw and not from the board.
LastDrawRun ==
    LET length == SHIPS[Len(tbLast.pre.placed_ships) + 1].size IN
    { cell \in (0 .. (2 * BOARD_SIZE)) \X (0 .. (2 * BOARD_SIZE)) :
        IF tbLast.orientation = 0
        THEN cell[1] = tbLast.row /\ cell[2] - tbLast.col \in 0 .. (length - 1)
        ELSE cell[2] = tbLast.col /\ cell[1] - tbLast.row \in 0 .. (length - 1) }

\* C36: after any sequence of successful placements the placed ships do not
\* overlap, each occupies a horizontal or vertical contiguous run wholly
\* inside the grid, each ship's remaining set equals the cells it occupies,
\* and the number of Ship cells is the sum of the placed ships' lengths (the
\* whole catalogue's when every ship is placed); can_place_ship, asked about
\* a start cell of the grid, returns false exactly when the run would leave
\* the grid or cover a cell that is not empty, and an accepted draw turns
\* exactly its run to Ship.
C36_PlacementsDisjointRuns ==
    /\ tbPlacing =>
         LET ships == tb.placed_ships
             ShipCellsOnGrid == { cell \in Cells(tb.size) : tb.hidden_grid[cell] = "S" }
         IN
         /\ \A i, j \in 1 .. Len(ships) :
               i # j => ships[i].positions \cap ships[j].positions = {}
         /\ \A i \in 1 .. Len(ships) :
               /\ ships[i].name = SHIPS[i].name
               /\ IsRunInside(ships[i].positions, SHIPS[i].size, tb.size)
         /\ UNION { ships[i].positions : i \in 1 .. Len(ships) } = ShipCellsOnGrid
         /\ Cardinality(ShipCellsOnGrid) = LengthsOfFirst(Len(ships))
         /\ \A cell \in Cells(tb.size) : tb.hidden_grid[cell] \in {".", "S"}
    /\ tbLast.op = "place" =>
         LET pre == tbLast.pre
             leaves == ~ (LastDrawRun \subseteq Cells(pre.size))
             covers == \E cell \in LastDrawRun \cap Cells(pre.size) :
                          pre.hidden_grid[cell] # "."
         IN
         /\ tbLast.can_place = FALSE <=> (leaves \/ covers)
         /\ tbLast.can_place =>
               /\ Len(tb.placed_ships) = Len(pre.placed_ships) + 1
               /\ tb.placed_ships[Len(tb.placed_ships)].positions = LastDrawRun
               /\ \A cell \in Cells(pre.size) :
                     tb.hidden_grid[cell] =
                        IF cell \in LastDrawRun THEN "S" ELSE pre.hidden_grid[cell]
         /\ ~ tbLast.can_place => tb = pre

\* The whole catalogue placed by accepted draws, no shot fired yet.
C36_Witness ==
    /\ tbPlacing
    /\ Len(tb.placed_ships) = Len(SHIPS)
    /\ tbLast.op = "place" /\ tbLast.can_place
    /\ Cardinality({ cell \in Cells(tb.size) : tb.hidden_grid[cell] = "S" })
          = LengthsOfFirst(Len(SHIPS))

\* The locks a thread is inside, and the lock a thread is asking for.
LocksHeldBy(task) == { l \in Locks : lock_owner[l] = task }
LockAskedBy(task) ==
    IF lock_task[task] # << >> /\ Head(lock_task[task]).op = "acquire"
    THEN Head(lock_task[task]).lock ELSE None
\* The threads whose acquisition cannot return in this state.
LockWaiters ==
    { t \in LockTasks : LockAskedBy(t) # None /\ lock_owner[LockAskedBy(t)] # None }
\* One order of the five locks.
LockOrder == << "game_lock", "waiting_players_lock", "spectators_lock",
                "active_usernames_lock", "disconnected_players_lock" >>
LockRank(lock) == CHOOSE i \in 1 .. Len(LockOrder) : LockOrder[i] = lock

\* C37: no interleaving of the admission loop, the waiting handlers, the
\* spectator handlers and the game session deadlocks on the server's locks:
\* a thread asks for a lock only while every lock it is inside comes earlier
\* in one fixed order of the five, and there is never a set of threads each
\* of which waits for a lock that a thread of the set is inside (two threads
\* waiting for each other's lock, or one waiting for its own, included).
C37_NoLockDeadlock ==
    /\ \A t \in LockTasks :
          LockAskedBy(t) # None =>
             \A held \in LocksHeldBy(t) : LockRank(held) < LockRank(LockAskedBy(t))
    /\ \A waiting \in SUBSET LockWaiters :
          waiting # {} => \E t \in waiting : lock_owner[LockAskedBy(t)] \notin waiting

\* The game session is inside active_usernames_lock and
\* disconnected_players_lock at once while the admission loop, inside no
\* lock, waits for one of them and a spectator handler waits for the other.
C37_Witness ==
    /\ LocksHeldBy("handle_game_session")
          = {"active_usernames_lock", "disconnected_players_lock"}
    /\ "run_game_server" \in LockWaiters
    /\ "handle_spectator" \in LockWaiters
    /\ LockAskedBy("run_game_server") # LockAskedBy("handle_spectator")

====
